---- MODULE Spec2Model ----
(***************************************************************************)
(* A model of the TUIO 2.0 simulator back end (src-tauri/src): the object  *)
(* store and its commands, the frame producer, the TUIO/OSC bundle         *)
(* builder, and the WebSocket fan-out server with its broadcast channel.   *)
(*                                                                         *)
(* Representation notes.                                                   *)
(*  - A u32 is the record [hi, lo] of its two 16-bit halves, so that the   *)
(*    real width (wrap at 2^32, sign change of `as i32` at 2^31) is kept   *)
(*    although TLC's integers are 32-bit signed.                           *)
(*  - An f32 coordinate or angle is an integer number of thousandths;      *)
(*    a velocity is the exact fraction [num, den] of (delta in             *)
(*    thousandths) / (delta time in ms), which is the value in units per   *)
(*    second; f32 rounding is not modelled.                                *)
(*  - Time is the millisecond clock read by chrono::Utc::now(), counted    *)
(*    from the start of the run.                                           *)
(***************************************************************************)
EXTENDS Integers, Sequences, FiniteSets, TLC

\* ---------------------------------------------------------------- bounds

\* Frames the producer tasks may produce in one run.
MaxTicks == 2
\* Session ids add_object may allocate in one run.
MaxAdds == 2
\* Frames produced in one run of the lag specification, beyond the channel size.
LagSlack == 2
\* Frames that may already be published when a client of the lag
\* specification connects.
LagAcceptBy == 1
\* Frames the producer may produce in one run of the command specification.
CmdTicks == 1
\* start_server calls that get as far as spawning tasks in a run of the
\* commands step by step.
MaxStarts == 2
\* Frames the producer tasks may begin in such a run.
TaskTicks == 1

\* ------------------------------------------------------- input alphabets

Ports == {3343}
CompIds == {0, 1, 2, 25}
\* The same with one valid component id.
OneCompId == {0, 1, 25}
Points == {<<0, 1000>>, <<-1, 500>>, <<500, 1001>>}
MoveCoords == {500, 600}
Angles == {0, 1570}
FpsInputs == {0, 120, 121}
\* Canvas sizes as (width, height): a zero width, a zero height, and a width
\* above 2^15 with a height that differs from it.
DimInputs == {<<0, 480>>, <<40000, 0>>, <<40000, 480>>}
\* The connections a run may see, numbered in arrival order.
Peers == {1, 2}
\* The callers that can have a command in flight at the same time.
Callers == {1, 2}

\* ------------------------------------------------------------ u32 values

U32(n) == [hi |-> n \div (2^16), lo |-> n % (2^16)]

U32Max == [hi |-> 2^16 - 1, lo |-> 2^16 - 1]

\* u32::wrapping_add(1)
wrapping_add1(v) ==
    IF v.lo = 2^16 - 1
    THEN [hi |-> (v.hi + 1) % (2^16), lo |-> 0]
    ELSE [hi |-> v.hi, lo |-> v.lo + 1]

\* `v as i32` for a u32 v: the same 32 bits read as two's complement.
AsI32(v) ==
    IF v.hi >= 2^15
    THEN (v.hi - 2^16) * (2^16) + v.lo
    ELSE v.hi * (2^16) + v.lo

\* ((a as i32) << 16) | (b as i32) for u16 a, b: the halves a and b of an i32.
Pack16(a, b) == AsI32([hi |-> a, lo |-> b])

\* usize::saturating_sub(1)
saturating_sub1(n) == IF n = 0 THEN 0 ELSE n - 1

RECURSIVE GCD(_, _)
GCD(a, b) == IF b = 0 THEN a ELSE GCD(b, a % b)

Abs(n) == IF n < 0 THEN 0 - n ELSE n

\* The quotient n / d (d > 0) as a fraction in lowest terms.
Ratio(n, d) ==
    LET g == GCD(Abs(n), d)
    IN  [num |-> n \div g, den |-> d \div g]

Zero == Ratio(0, 1)

\* All the orders in which the elements of the finite set S can be listed.
Orders(S) ==
    {s \in [1 .. Cardinality(S) -> S] :
        \A i, j \in 1 .. Cardinality(S) : i # j => s[i] # s[j]}

RECURSIVE SumSeq(_)
SumSeq(s) == IF s = <<>> THEN 0 ELSE Head(s) + SumSeq(Tail(s))

\* ----------------------------------------------- tuio/messages.rs (OSC)

\* The NTP timetag FrameMessage::to_osc derives from a millisecond
\* timestamp ts >= 0: seconds = (ts / 1000) as u32 and
\* fractional = (((ts % 1000) * u32::MAX) / 1000) as u32. The product does
\* not fit TLC's integers, so the division is done on the 16-bit
\* halves: (ms * (2^32 - 1)) = (ms * 65535) * 2^16 + ms * 65535.
Fractional(ms) ==
    LET top  == ms * (2^16 - 1)
        qhi  == top \div 1000
        rest == (top % 1000) * (2^16) + top
        qlo  == rest \div 1000
    IN  [hi |-> qhi + qlo \div (2^16), lo |-> qlo % (2^16)]

TimeTag(ts) == [seconds |-> U32(ts \div 1000), fractional |-> Fractional(ts % 1000)]

\* A FRM message whose dimension has the height in the upper half.
FrameMessage_to_osc_swapped(frame_id, timestamp, width, height, source) ==
    [addr |-> "/tuio2/frm",
     args |-> <<AsI32(frame_id), TimeTag(timestamp), Pack16(height, width), source>>]

\* FrameMessage::to_osc
FrameMessage_to_osc(frame_id, timestamp, width, height, source) ==
    [addr |-> "/tuio2/frm",
     args |-> <<AsI32(frame_id), TimeTag(timestamp), Pack16(width, height), source>>]

\* AliveMessage::to_osc
AliveMessage_to_osc(session_ids) ==
    [addr |-> "/tuio2/alv",
     args |-> [i \in 1 .. Len(session_ids) |-> AsI32(session_ids[i])]]

\* TokenMessage::new(...).to_osc() for one object of the snapshot
TokenMessage_to_osc(obj) ==
    [addr |-> "/tuio2/tok",
     args |-> <<AsI32(obj.session_id), Pack16(obj.type_id, obj.user_id),
                obj.component_id, obj.x, obj.y, obj.angle,
                obj.x_vel, obj.y_vel, obj.angle_vel>>]

\* ------------------------------------------------------ tuio/encoder.rs

\* Fault: the ALV message lists the session ids in the reverse order.
create_tuio_bundle_alv_reversed(frame_id, timestamp, width, height, source, objs) ==
    [timetag |-> [seconds |-> 0, fractional |-> 1],
     content |->
        <<FrameMessage_to_osc(frame_id, timestamp, width, height, source)>>
        \o [i \in 1 .. Len(objs) |-> TokenMessage_to_osc(objs[i])]
        \o <<AliveMessage_to_osc(
                [i \in 1 .. Len(objs) |-> objs[Len(objs) + 1 - i].session_id])>>]

\* create_tuio_bundle: FRM, one TOK per object in the order of the slice,
\* ALV with the session ids in the same order; immediate timetag {0, 1}.
create_tuio_bundle(frame_id, timestamp, width, height, source, objs) ==
    [timetag |-> [seconds |-> 0, fractional |-> 1],
     content |->
        <<FrameMessage_to_osc(frame_id, timestamp, width, height, source)>>
        \o [i \in 1 .. Len(objs) |-> TokenMessage_to_osc(objs[i])]
        \o <<AliveMessage_to_osc([i \in 1 .. Len(objs) |-> objs[i].session_id])>>]

\* Bytes an OSC string of n characters takes: the characters, a null, padding to 4.
OscStringLen(n) == ((n + 4) \div 4) * 4

\* Bytes of the arguments of a message, by its address (int32 and float32
\* take 4 bytes, a timetag 8, a string its padded length).
ArgBytes(m) ==
    IF m.addr = "/tuio2/frm"
    THEN 4 + 8 + 4 + OscStringLen(Len(m.args[4]))
    ELSE 4 * Len(m.args)

\* Encoded size of one OSC message: address, type tag string (a comma and
\* one character per argument), arguments.
MessageBytes(m) ==
    OscStringLen(Len(m.addr)) + OscStringLen(1 + Len(m.args)) + ArgBytes(m)

\* encode_bundle: "#bundle\0", the timetag, then every element behind its
\* 4-byte size prefix. The bytes are kept as this layout, not flattened.
encode_bundle(bundle) ==
    [magic    |-> "#bundle",
     timetag  |-> bundle.timetag,
     elements |-> [i \in 1 .. Len(bundle.content) |->
                     [size |-> MessageBytes(bundle.content[i]),
                      msg  |-> bundle.content[i]]]]

\* Vec::len() of an encoded bundle
DataLen(data) ==
    8 + 8 + SumSeq([i \in 1 .. Len(data.elements) |-> 4 + data.elements[i].size])

create_and_encode_tuio_bundle(frame_id, timestamp, width, height, source, objs) ==
    encode_bundle(create_tuio_bundle(frame_id, timestamp, width, height, source, objs))

\* -------------------------------------------------------- tuio/frame.rs

\* calculate_velocities: every object on its own, only when more than
\* 1 ms has passed since its last_update.
\* The estimator with the threshold at 0 ms instead of 1 ms.
calculate_velocities_above_zero(objs, current_timestamp) ==
    [id \in DOMAIN objs |->
        LET o  == objs[id]
            dt == current_timestamp - o.last_update
        IN  IF dt > 0
            THEN [o EXCEPT !.x_vel      = Ratio(o.x - o.last_x, dt),
                           !.y_vel      = Ratio(o.y - o.last_y, dt),
                           !.angle_vel  = Ratio(o.angle - o.last_angle, dt),
                           !.last_x     = o.x,
                           !.last_y     = o.y,
                           !.last_angle = o.angle,
                           !.last_update = current_timestamp]
            ELSE o]

\* The estimator without the commit of the time of the estimate.
calculate_velocities_time_uncommitted(objs, current_timestamp) ==
    [id \in DOMAIN objs |->
        LET o  == objs[id]
            dt == current_timestamp - o.last_update
        IN  IF dt > 1
            THEN [o EXCEPT !.x_vel      = Ratio(o.x - o.last_x, dt),
                           !.y_vel      = Ratio(o.y - o.last_y, dt),
                           !.angle_vel  = Ratio(o.angle - o.last_angle, dt),
                           !.last_x     = o.x,
                           !.last_y     = o.y,
                           !.last_angle = o.angle]
            ELSE o]

calculate_velocities(objs, current_timestamp) ==
    [id \in DOMAIN objs |->
        LET o  == objs[id]
            dt == current_timestamp - o.last_update
        IN  IF dt > 1
            THEN [o EXCEPT !.x_vel      = Ratio(o.x - o.last_x, dt),
                           !.y_vel      = Ratio(o.y - o.last_y, dt),
                           !.angle_vel  = Ratio(o.angle - o.last_angle, dt),
                           !.last_x     = o.x,
                           !.last_y     = o.y,
                           !.last_angle = o.angle,
                           !.last_update = current_timestamp]
            ELSE o]

\* ----------------------------------------------------------------- state

VARIABLES
    objects,            \* AppState.objects: session id -> TuioObject
    next_session_id,    \* AppState.next_session_id (u32)
    frame_counter,      \* AppState.frame_counter (u32)
    config,             \* AppState.config
    server_running,     \* AppState.server_running
    frame_task,         \* AppState.frame_task: "None" or "Some" (a JoinHandle)
    producer,           \* the frame_generation_loop task: "none", "alive", "exited"
    wake,               \* the time at which the producer's sleep ends
    server_task,        \* WebSocketServer.server_task: "None" or "Some"
    acceptor,           \* the accept-loop task: "none", "alive", "exited"
    connected_clients,  \* WebSocketServer.connected_clients
    chan,               \* the broadcast channel: every value it stored, oldest first
    peer,               \* per connection: the handle_connection task and its receiver
    received,           \* per connection: the binary messages sent to the client
    lag_signals,        \* per connection: the n of every RecvError::Lagged(n) it got
    published,          \* every frame handed to WebSocketServer::broadcast
    events,             \* the osc_message events: how many were emitted, and the latest
    last_broadcast,     \* what the latest WebSocketServer::broadcast returned
    now,                \* the millisecond clock
    result,             \* what the latest command returned
    adds,               \* session ids allocated so far
    boot_frames,        \* frame_counter at the start of the run (0 at process start)
    calls,              \* per caller: the command it is executing and where it is in it
    tasks               \* the tasks spawned by commands that run step by step

vars == <<objects, next_session_id, frame_counter, config, server_running,
          frame_task, producer, wake, server_task, acceptor, connected_clients,
          chan, peer, received, lag_signals, published, events, last_broadcast,
          now, result, adds, boot_frames, calls, tasks>>

storeVars == <<objects, next_session_id, adds>>
serverVars == <<server_running, frame_task, producer, wake, server_task, acceptor>>
netVars == <<chan, peer, received, lag_signals>>
frameVars == <<frame_counter, published, events, last_broadcast, boot_frames>>

\* The requested size of the broadcast channel.
ChannelRequest == 100

RECURSIVE next_power_of_two(_)
next_power_of_two(n) == IF n <= 1 THEN 1 ELSE 2 * next_power_of_two((n + 1) \div 2)

\* broadcast::channel(100): the channel keeps next_power_of_two(100) values.
Capacity == next_power_of_two(ChannelRequest)

EmptyMap == [k \in {} |-> 0]

\* Config::default()
DefaultConfig ==
    [port |-> 3343, fps |-> 60, width |-> 1920, height |-> 1080,
     source |-> "tuio-simulator"]

NoEvent ==
    [frame_id |-> U32(0), timestamp |-> 0, object_count |-> 0, message_size |-> 0,
     connected_clients |-> 0]

\* A caller that is executing no command.
NoCall == [op |-> "none", pc |-> "idle", arg |-> 0, loc |-> 0, held |-> {}]

NoPeer == [st |-> "none", next |-> 0, sub_at |-> 0, rx_task |-> "none", sock |-> "none"]

\* AppState::new() and WebSocketServer::new(), with the frame counter at
\* `counter`, the clock at `time`, the store holding `objs` and the
\* session-id counter at `next_id`.
InitWith(counter, time, objs, next_id) ==
    /\ objects = objs
    /\ next_session_id = next_id
    /\ frame_counter = counter
    /\ boot_frames = counter
    /\ config = DefaultConfig
    /\ server_running = FALSE
    /\ frame_task = "None"
    /\ producer = "none"
    /\ wake = 0
    /\ server_task = "None"
    /\ acceptor = "none"
    /\ connected_clients = 0
    /\ chan = <<>>
    /\ peer = [p \in Peers |-> NoPeer]
    /\ received = [p \in Peers |-> <<>>]
    /\ lag_signals = [p \in Peers |-> <<>>]
    /\ published = <<>>
    /\ events = [count |-> 0, last |-> NoEvent]
    /\ last_broadcast = "none"
    /\ now = time
    /\ result = [op |-> "none", ok |-> TRUE, val |-> 0]
    /\ adds = 0
    /\ calls = [k \in Callers |-> NoCall]
    /\ tasks = <<>>

\* The same with an empty store and the session-id counter at 0.
InitFrom(counter, time) == InitWith(counter, time, EmptyMap, U32(0))

\* The same with the clock at 0.
InitAt(counter) == InitFrom(counter, 0)

Init == InitAt(U32(0))

Ok(op, v) == [op |-> op, ok |-> TRUE, val |-> v]
\* An error with its message, and one whose message is formatted with an argument.
Err(op, msg) == [op |-> op, ok |-> FALSE, val |-> <<msg>>]
ErrWith(op, msg, arg) == [op |-> op, ok |-> FALSE, val |-> <<msg, arg>>]

\* ---------------------------------------------------- commands.rs: store

\* Fault: the coordinate range is not enforced.
InUnit_unchecked(v) == TRUE

\* (0.0..=1.0).contains(&v)
InUnit(v) == 0 <= v /\ v <= 1000

\* HashMap::insert: a value already under the key is replaced.
Insert(map, k, v) == [j \in DOMAIN map \cup {k} |-> IF j = k THEN v ELSE map[j]]

\* A removal that leaves the entry in the map.
Remove_kept(map, k) == map

Remove(map, k) == [j \in DOMAIN map \ {k} |-> map[j]]

\* The TuioObject add_object builds.
\* A new object whose type_id is left at 0.
NewObject_untyped(session_id, component_id, x, y, timestamp) ==
    [session_id |-> session_id, type_id |-> 0, user_id |-> 0,
     component_id |-> component_id, x |-> x, y |-> y, angle |-> 0,
     x_vel |-> Zero, y_vel |-> Zero, angle_vel |-> Zero,
     last_x |-> x, last_y |-> y, last_angle |-> 0, last_update |-> timestamp]

NewObject(session_id, component_id, x, y, timestamp) ==
    [session_id |-> session_id, type_id |-> component_id, user_id |-> 0,
     component_id |-> component_id, x |-> x, y |-> y, angle |-> 0,
     x_vel |-> Zero, y_vel |-> Zero, angle_vel |-> Zero,
     last_x |-> x, last_y |-> y, last_angle |-> 0, last_update |-> timestamp]

\* Fault: add_object without the check for a live component id.
ComponentInUse_unchecked(objs, component_id) == FALSE

\* objects.values().any(|obj| obj.component_id == component_id)
ComponentInUse(objs, component_id) ==
    \E id \in DOMAIN objs : objs[id].component_id = component_id

add_object(component_id, x, y) ==
    /\ IF ~(1 <= component_id /\ component_id <= 24)
       THEN /\ result' = Err("add_object", "Component ID must be in range [1, 24]")
            /\ UNCHANGED storeVars
       ELSE IF ~InUnit(x) \/ ~InUnit(y)
       THEN /\ result' = Err("add_object", "Coordinates must be in range [0.0, 1.0]")
            /\ UNCHANGED storeVars
       ELSE IF ComponentInUse(objects, component_id)
       THEN /\ result' = ErrWith("add_object", "Component ID {} is already in use",
                                     component_id)
            /\ UNCHANGED storeVars
       ELSE /\ adds < MaxAdds
            /\ next_session_id' = wrapping_add1(next_session_id)
            /\ objects' = Insert(objects, next_session_id,
                                 NewObject(next_session_id, component_id, x, y, now))
            /\ adds' = adds + 1
            /\ result' = Ok("add_object", next_session_id)
    /\ UNCHANGED <<calls, tasks, config, serverVars, connected_clients, netVars, frameVars, now>>

\* An update that also commits the shadow position and clears the
\* velocities.
update_object_committing(session_id, x, y, angle) ==
    /\ IF ~InUnit(x) \/ ~InUnit(y)
       THEN /\ result' = Err("update_object", "Coordinates must be in range [0.0, 1.0]")
            /\ UNCHANGED objects
       ELSE IF session_id \in DOMAIN objects
       THEN /\ objects' = [objects EXCEPT ![session_id] =
                              [@ EXCEPT !.x = x, !.y = y, !.angle = angle,
                                        !.last_x = x, !.last_y = y,
                                        !.x_vel = Zero, !.y_vel = Zero,
                                        !.last_update = now]]
            /\ result' = Ok("update_object", 0)
       ELSE /\ result' = ErrWith("update_object",
                                     "Object with session_id {} not found", session_id)
            /\ UNCHANGED objects
    /\ UNCHANGED <<calls, tasks, next_session_id, adds, config, serverVars, connected_clients,
                   netVars, frameVars, now>>

update_object(session_id, x, y, angle) ==
    /\ IF ~InUnit(x) \/ ~InUnit(y)
       THEN /\ result' = Err("update_object", "Coordinates must be in range [0.0, 1.0]")
            /\ UNCHANGED objects
       ELSE IF session_id \in DOMAIN objects
       THEN /\ objects' = [objects EXCEPT ![session_id] =
                              [@ EXCEPT !.x = x, !.y = y, !.angle = angle,
                                        !.last_update = now]]
            /\ result' = Ok("update_object", 0)
       ELSE /\ result' = ErrWith("update_object",
                                     "Object with session_id {} not found", session_id)
            /\ UNCHANGED objects
    /\ UNCHANGED <<calls, tasks, next_session_id, adds, config, serverVars, connected_clients,
                   netVars, frameVars, now>>

remove_object(session_id) ==
    /\ IF session_id \in DOMAIN objects
       THEN /\ objects' = Remove(objects, session_id)
            /\ result' = Ok("remove_object", 0)
       ELSE /\ result' = ErrWith("remove_object",
                                     "Object with session_id {} not found", session_id)
            /\ UNCHANGED objects
    /\ UNCHANGED <<calls, tasks, next_session_id, adds, config, serverVars, connected_clients,
                   netVars, frameVars, now>>

\* Fault: set_frame_rate stores the rate before it validates it.
set_frame_rate_store_first(fps) ==
    /\ config' = [config EXCEPT !.fps = fps]
    /\ result' = IF ~(1 <= fps /\ fps <= 120)
                 THEN [op |-> "set_frame_rate", ok |-> FALSE,
                       val |-> <<"FPS must be in range [1, 120]">>]
                 ELSE [op |-> "set_frame_rate", ok |-> TRUE, val |-> 0]
    /\ UNCHANGED <<calls, tasks, storeVars, serverVars, connected_clients, netVars, frameVars, now>>

set_frame_rate(fps) ==
    /\ IF ~(1 <= fps /\ fps <= 120)
       THEN /\ result' = Err("set_frame_rate", "FPS must be in range [1, 120]")
            /\ UNCHANGED config
       ELSE /\ config' = [config EXCEPT !.fps = fps]
            /\ result' = Ok("set_frame_rate", 0)
    /\ UNCHANGED <<calls, tasks, storeVars, serverVars, connected_clients, netVars, frameVars, now>>

set_canvas_dimensions(width, height) ==
    /\ IF width = 0 \/ height = 0
       THEN /\ result' = Err("set_canvas_dimensions",
                             "Width and height must be greater than 0")
            /\ UNCHANGED config
       ELSE /\ config' = [config EXCEPT !.width = width, !.height = height]
            /\ result' = Ok("set_canvas_dimensions", 0)
    /\ UNCHANGED <<calls, tasks, storeVars, serverVars, connected_clients, netVars, frameVars, now>>

\* ------------------------------------------- state.rs / commands.rs: status

\* AppState::get_connected_clients: the fan-out server's counter.
get_connected_clients == connected_clients

\* What get_server_status returns in the current state.
get_server_status ==
    [running |-> server_running, port |-> config.port, fps |-> config.fps,
     connected_clients |-> get_connected_clients, frame_count |-> frame_counter,
     object_count |-> Cardinality(DOMAIN objects)]

\* ------------------------------------------ websocket/mod.rs: the channel

\* Receiver handles that exist: one per connection from the accept until
\* its handle_connection returns.
Subscribed(p) == peer[p].st \in {"handshake", "loop", "joining"}

receiver_count == Cardinality({p \in Peers : Subscribed(p)})

\* broadcast::Sender::send: with no receiver the value is returned in an
\* error and not stored; otherwise it is stored as the newest value (a
\* value older than the channel size is thereby dropped) and the number
\* of receivers is returned. It never waits: res is "Ok" or "Err", never
\* "Pending".
tx_send(ch, data) ==
    IF receiver_count = 0
    THEN [chan |-> ch, res |-> "Err"]
    ELSE [chan |-> Append(ch, data), res |-> "Ok"]

\* Fault: broadcast hands the result of send on to its caller.
broadcast_result_propagated(send_res) == send_res

\* WebSocketServer::broadcast: the result of send is dropped and Ok(())
\* returned as soon as send has returned.
broadcast_result(send_res) == IF send_res = "Pending" THEN "Pending" ELSE "Ok"

\* Fault: a new receiver starts at the oldest value the channel holds.
subscribe_from_oldest(ch) == 0

\* broadcast::Sender::subscribe: the new receiver starts behind the newest value.
subscribe(ch) == Len(ch)

\* Fault: recv hands out the newest unread value first.
recv_value_newest_first(ch, next) == ch[Len(ch) - next]

\* The value a receiver whose cursor is `next` is handed by recv.
recv_value(ch, next) == ch[next + 1]

\* Values a receiver has missed for good: those already dropped by the channel.
missed(ch, next) == (Len(ch) - Capacity) - next

\* The cursor of a receiver after RecvError::Lagged: the oldest value still kept.
lagged_cursor(ch) == Len(ch) - Capacity

\* ------------------------------------- websocket/mod.rs: start and stop

\* WebSocketServer::stop: the acceptor task, if a handle is stored, is
\* aborted and the handle taken; the counter is reset.
ws_stop ==
    /\ server_task' = "None"
    /\ acceptor' = IF server_task = "Some" THEN "none" ELSE acceptor
    /\ connected_clients' = 0

\* WebSocketServer::start: stop, bind, spawn the accept loop, store its handle.
ws_start(bind_ok) ==
    IF bind_ok
    THEN /\ server_task' = "Some"
         /\ acceptor' = "alive"
         /\ connected_clients' = 0
    ELSE ws_stop

\* ---------------------------------- commands.rs: start_server, stop_server

\* Fault: start_server without its first check.
AlreadyRunning_unchecked == FALSE

\* start_server's first check.
AlreadyRunning == server_running

\* Fault: the producer is spawned and its handle stored before the
\* WebSocket server is started, so a bind failure leaves it behind.
start_failed_after_spawn ==
    /\ result' = Err("start_server", "Failed to start WebSocket server")
    /\ frame_task' = "Some"
    /\ producer' = "alive"
    /\ wake' = now
    /\ UNCHANGED server_running

\* start_server when WebSocketServer::start returned an error: the error is
\* propagated by `?` before anything else is done.
start_failed ==
    /\ result' = Err("start_server", "Failed to start WebSocket server")
    /\ UNCHANGED <<server_running, frame_task, producer, wake>>

\* start_server after WebSocketServer::start returned Ok: spawn the
\* producer, store its handle, set the flag.
start_succeeded ==
    /\ frame_task' = "Some"
    /\ producer' = "alive"
    /\ wake' = now
    /\ server_running' = TRUE
    /\ result' = Ok("start_server", 0)

start_server(port, bind_ok) ==
    /\ IF AlreadyRunning
       THEN /\ result' = Err("start_server", "Server is already running")
            /\ UNCHANGED <<config, serverVars, connected_clients>>
       ELSE /\ config' = [config EXCEPT !.port = port]
            /\ ws_start(bind_ok)
            /\ IF bind_ok THEN start_succeeded ELSE start_failed
    /\ UNCHANGED <<calls, tasks, storeVars, netVars, frameVars, now>>

\* Fault: stop_server refuses to stop a server that is not running.
stop_result_strict ==
    IF server_running
    THEN [op |-> "stop_server", ok |-> TRUE, val |-> 0]
    ELSE [op |-> "stop_server", ok |-> FALSE, val |-> <<"Server is not running">>]

\* What stop_server returns.
stop_result == Ok("stop_server", 0)

stop_server ==
    /\ server_running' = FALSE
    /\ frame_task' = "None"
    /\ producer' = IF frame_task = "Some" THEN "none" ELSE producer
    /\ ws_stop
    /\ result' = stop_result
    /\ UNCHANGED <<calls, tasks, wake, storeVars, config, netVars, frameVars, now>>

\* ------------------------------------ commands.rs: frame_generation_loop

\* Fault: the counter stops at its largest value instead of wrapping.
increment_frame_counter_saturating(counter) ==
    IF counter = U32Max THEN counter ELSE wrapping_add1(counter)

\* AppState::increment_frame_counter
increment_frame_counter(counter) == wrapping_add1(counter)

\* 1000 / fps.max(1)
interval_ms(fps) == 1000 \div (IF fps < 1 THEN 1 ELSE fps)

\* events::emit_osc_message
emit_osc_message(frame_id, timestamp, object_count, message_size, clients) ==
    [count |-> events.count + 1,
     last  |-> [frame_id |-> frame_id, timestamp |-> timestamp,
                object_count |-> object_count, message_size |-> message_size,
                connected_clients |-> clients]]

\* One iteration of frame_generation_loop, from the check of the flag to
\* the start of the sleep: generate_frame (counter, config, velocities,
\* snapshot in the map's iteration order, bundle), the osc_message event,
\* the broadcast. `timestamp` is what chrono::Utc::now() returns to this
\* iteration (the wall clock), `now` the time the sleep is measured on.
ProduceAt(limit, timestamp) ==
    /\ producer = "alive"
    /\ now >= wake
    /\ IF ~server_running
       THEN /\ producer' = "exited"
            /\ UNCHANGED <<objects, frame_counter, published, events,
                           last_broadcast, chan, wake>>
       ELSE /\ Len(published) < limit
            /\ \E order \in Orders(DOMAIN objects) :
                 LET frame_id == increment_frame_counter(frame_counter)
                     objs     == calculate_velocities(objects, timestamp)
                     snapshot == [i \in 1 .. Len(order) |-> objs[order[i]]]
                     data     == create_and_encode_tuio_bundle(
                                    frame_id, timestamp, config.width, config.height,
                                    config.source, snapshot)
                     sent     == tx_send(chan, data)
                 IN  /\ frame_counter' = frame_id
                     /\ objects' = objs
                     /\ events' = emit_osc_message(
                           frame_id, timestamp, Cardinality(DOMAIN objs), DataLen(data),
                           get_connected_clients)
                     /\ published' = Append(published, data)
                     /\ broadcast_result(sent.res) # "Pending"
                     /\ chan' = sent.chan
                     /\ last_broadcast' = broadcast_result(sent.res)
            /\ wake' = now + interval_ms(config.fps)
            /\ UNCHANGED producer
    /\ UNCHANGED <<calls, tasks, next_session_id, adds, config, server_running, frame_task,
                   server_task, acceptor, connected_clients, peer, received,
                   lag_signals, now, result, boot_frames>>

\* The iteration when the wall clock agrees with the sleep's clock.
Produce(limit) == ProduceAt(limit, now)

Tick == Produce(MaxTicks)

\* The producer's sleep elapses.
Sleep ==
    /\ producer = "alive"
    /\ now < wake
    /\ now' = wake
    /\ UNCHANGED <<calls, tasks, storeVars, config, serverVars, connected_clients, netVars,
                   frameVars, result>>

\* --------------------------- websocket/mod.rs: accept loop and connections

\* listener.accept() returned a connection: count it, subscribe a receiver,
\* spawn the connection's task. Connections are numbered in arrival order.
Accept(p) ==
    /\ acceptor = "alive"
    /\ peer[p].st = "none"
    /\ \A q \in Peers : q < p => peer[q].st # "none"
    /\ connected_clients' = connected_clients + 1
    /\ peer' = [peer EXCEPT ![p] =
                  [st |-> "handshake", next |-> subscribe(chan),
                   sub_at |-> Len(published), rx_task |-> "none", sock |-> "open"]]
    /\ UNCHANGED <<calls, tasks, storeVars, config, serverVars, chan, received, lag_signals,
                   frameVars, now, result>>

\* listener.accept() returned an error: it is logged and the loop is left.
AcceptError ==
    /\ acceptor = "alive"
    /\ acceptor' = "exited"
    /\ UNCHANGED <<calls, tasks, storeVars, config, server_running, frame_task, producer, wake,
                   server_task, connected_clients, netVars, frameVars, now, result>>

\* The end of a connection's task: the receiver is dropped with
\* handle_connection's frame and the counter is decremented.
peer_task_end(p) ==
    /\ peer' = [peer EXCEPT ![p].st = "done"]
    /\ connected_clients' = saturating_sub1(connected_clients)

\* accept_async: the WebSocket upgrade. On success the receive task is
\* spawned and the send loop entered; on failure handle_connection returns.
Handshake(p, ok) ==
    /\ peer[p].st = "handshake"
    /\ IF ok
       THEN /\ peer' = [peer EXCEPT ![p].st = "loop", ![p].rx_task = "running"]
            /\ UNCHANGED connected_clients
       ELSE peer_task_end(p)
    /\ UNCHANGED <<calls, tasks, storeVars, config, serverVars, chan, received, lag_signals,
                   frameVars, now, result>>

\* The client sends a Close frame, or its connection breaks.
ClientClose(p) ==
    /\ peer[p].st \in {"loop", "joining"}
    /\ peer[p].sock = "open"
    /\ peer' = [peer EXCEPT ![p].sock = "closed"]
    /\ UNCHANGED <<calls, tasks, storeVars, config, serverVars, connected_clients, chan, received,
                   lag_signals, frameVars, now, result>>

\* The receive task reads the Close frame or the error and ends.
ReceiveTaskEnd(p) ==
    /\ peer[p].rx_task = "running"
    /\ peer[p].sock = "closed"
    /\ peer' = [peer EXCEPT ![p].rx_task = "done"]
    /\ UNCHANGED <<calls, tasks, storeVars, config, serverVars, connected_clients, chan, received,
                   lag_signals, frameVars, now, result>>

\* One turn of handle_connection's send loop: broadcast_rx.recv() returns
\* Lagged(n), or a value that is then sent to the client; a failed send
\* leaves the loop. With nothing to receive the task waits (the sender is
\* never dropped, so Closed does not occur).
PeerRecv(p) ==
    /\ peer[p].st = "loop"
    /\ Len(chan) > peer[p].next
    /\ IF missed(chan, peer[p].next) > 0
       THEN /\ lag_signals' = [lag_signals EXCEPT ![p] =
                                  Append(@, missed(chan, peer[p].next))]
            /\ peer' = [peer EXCEPT ![p].next = lagged_cursor(chan)]
            /\ UNCHANGED received
       ELSE IF peer[p].sock = "open"
       THEN /\ received' = [received EXCEPT ![p] =
                               Append(@, recv_value(chan, peer[p].next))]
            /\ peer' = [peer EXCEPT ![p].next = @ + 1]
            /\ UNCHANGED lag_signals
       ELSE /\ peer' = [peer EXCEPT ![p].next = @ + 1, ![p].st = "joining"]
            /\ UNCHANGED <<received, lag_signals>>
    /\ UNCHANGED <<calls, tasks, storeVars, config, serverVars, connected_clients, chan,
                   frameVars, now, result>>

\* receive_task.await completes and handle_connection returns.
PeerJoin(p) ==
    /\ peer[p].st = "joining"
    /\ peer[p].rx_task = "done"
    /\ peer_task_end(p)
    /\ UNCHANGED <<calls, tasks, storeVars, config, serverVars, chan, received, lag_signals,
                   frameVars, now, result>>

\* ------------------------------------------------------------ behaviours

LiveIds == DOMAIN objects

\* Session ids given to update_object and remove_object: the live ones and
\* one that was never allocated.
IdInputs == LiveIds \cup {U32(MaxAdds)}

\* The commands that start and stop the server.
Lifecycle ==
    \/ \E port \in Ports, bind_ok \in BOOLEAN : start_server(port, bind_ok)
    \/ stop_server

\* The commands on the object store and the configuration.
StoreCommands ==
    \/ \E c \in CompIds, pt \in Points : add_object(c, pt[1], pt[2])
    \/ \E id \in IdInputs, x \in MoveCoords \cup {1001}, a \in Angles :
          update_object(id, x, 500, a)
    \/ \E id \in IdInputs : remove_object(id)
    \/ \E fps \in FpsInputs : set_frame_rate(fps)
    \/ \E d \in DimInputs : set_canvas_dimensions(d[1], d[2])

\* The clients and the connections' tasks, with an accept loop that meets
\* no error.
Connections ==
    \/ \E p \in Peers : Accept(p)
    \/ \E p \in Peers, ok \in BOOLEAN : Handshake(p, ok)
    \/ \E p \in Peers : ClientClose(p)
    \/ \E p \in Peers : ReceiveTaskEnd(p)
    \/ \E p \in Peers : PeerRecv(p)
    \/ \E p \in Peers : PeerJoin(p)

\* The accept loop, the clients and the connections' tasks.
Network == Connections \/ AcceptError

\* The server with its producer and its clients; the store stays empty.
Next == Lifecycle \/ Tick \/ Sleep \/ Network

Spec == Init /\ [][Next]_vars

\* The object store under add_object and remove_object, with the producer.
NextStore ==
    \/ \E port \in Ports : start_server(port, TRUE)
    \/ \E c \in CompIds, pt \in Points : add_object(c, pt[1], pt[2])
    \/ \E id \in IdInputs : remove_object(id)
    \/ Tick
    \/ Sleep

SpecStore == Init /\ [][NextStore]_vars

\* States the program is in after 2^31 - 2 or 2^32 - 2 frames, which no
\* bounded run reaches from frame 0: the frame counter just below the
\* sign change of `as i32` and just below its wrap.
CounterStarts == {U32(0), [hi |-> 2^15 - 1, lo |-> 2^16 - 2], [hi |-> 2^16 - 1, lo |-> 2^16 - 2]}

InitWrap == \E c \in CounterStarts : InitAt(c)

\* The server, its producer and its clients, also around the counter's wrap.
NextWrap == Lifecycle \/ Tick \/ Sleep \/ Connections

SpecWrap == InitWrap /\ [][NextWrap]_vars

\* The producer under start_server and stop_server, also around the wrap.
NextFrames == Lifecycle \/ Tick \/ Sleep

SpecFrames == InitWrap /\ [][NextFrames]_vars

\* The lag scenario: the clients connect early and complete the upgrade
\* before the next frame, client 1 is slow and the other clients read every
\* frame before the next one is produced; the producer runs until the
\* channel has dropped values.
Prompt == Peers \ {1}

LagSchedule ==
    \A p \in Peers :
        /\ peer[p].st # "handshake"
        /\ (p \in Prompt /\ peer[p].st = "loop") => peer[p].next = Len(chan)

\* Client 1 only reads when it is at least the requested channel size behind.
LagReader(p) == p \in Prompt \/ Len(chan) - peer[p].next >= ChannelRequest

NextLag ==
    \/ \E port \in Ports : start_server(port, TRUE)
    \/ \E p \in Peers : Len(published) <= LagAcceptBy /\ Accept(p)
    \/ \E p \in Peers : Handshake(p, TRUE)
    \/ LagSchedule /\ Produce(Capacity + LagSlack)
    \/ Sleep
    \/ \E p \in Peers : LagReader(p) /\ PeerRecv(p)

SpecLag == Init /\ [][NextLag]_vars

\* Every command on the store and the configuration, with valid and
\* invalid arguments, and the producer.
NextCommands ==
    \/ \E port \in Ports : start_server(port, TRUE)
    \/ \E c \in OneCompId, pt \in Points : add_object(c, pt[1], pt[2])
    \/ \E id \in IdInputs, x \in {600, 1001} : update_object(id, x, 500, 1570)
    \/ \E id \in IdInputs : remove_object(id)
    \/ \E fps \in FpsInputs : set_frame_rate(fps)
    \/ \E d \in DimInputs : set_canvas_dimensions(d[1], d[2])
    \/ Produce(CmdTicks)
    \/ Sleep

SpecCommands == Init /\ [][NextCommands]_vars

\* States the program is in after 2^32 - 1 or 2^32 session ids have been
\* allocated, which no bounded run reaches from an empty store: the
\* session-id counter is about to wrap or has wrapped, and the object that
\* was added first (session id 0, component 1) is still live.
SessionStarts == {U32Max, U32(0)}

FirstObject == NewObject(U32(0), 1, 0, 1000, 0)

InitIdWrap ==
    \E next_id \in SessionStarts :
        InitWith(U32(0), 0, Insert(EmptyMap, U32(0), FirstObject), next_id)

\* The object store and the producer around the wrap of the session ids.
SpecIdWrap == InitIdWrap /\ [][NextStore]_vars

\* Wall-clock times, in ms, at which the program is started: whole seconds,
\* half and quarter seconds, the ms before and after a second, and a late
\* time.
ClockStarts == {0, 250, 484, 500, 999, 1001, 2000000250}

InitClock == \E t \in ClockStarts : InitFrom(U32(0), t)

\* The producer under start_server and stop_server at these times.
SpecClock == InitClock /\ [][NextFrames]_vars

\* The producer's sleep with one ms of it left: the moment a command can
\* run 1 ms before the next tick.
Pause ==
    /\ producer = "alive"
    /\ now < wake - 1
    /\ now' = wake - 1
    /\ UNCHANGED <<calls, tasks, storeVars, config, serverVars, connected_clients, netVars,
                   frameVars, result>>

\* What the wall clock read by generate_frame is ahead of the clock the
\* sleep runs on: the two agree, or the wall clock was set back.
Skews == {0, -20}

\* The object that is moved, and the (x, y, angle) it is moved to: angles
\* of 6.2 and 0.1 rad, whose raw difference is not the shorter way round.
Mover == U32(0)

Moves == {<<600, 500, 6200>>, <<500, 500, 100>>}

\* Moving objects: update_object of one of two live objects and the
\* producer with the time between its ticks.
NextVelocity ==
    \/ \E port \in Ports : start_server(port, TRUE)
    \/ \E m \in Moves : update_object(Mover, m[1], m[2], m[3])
    \/ \E s \in Skews : ProduceAt(MaxTicks, now + s)
    \/ Sleep
    \/ Pause

\* The state at time StartTime after add_object(1, 0.0, 1.0) and
\* add_object(2, 0.0, 1.0) at time AddTime and
\* update_object(0, 0.6, 0.5, 6.2) at time MoveTime.
AddTime == 900

MoveTime == 990

StartTime == 1000

TwoObjects ==
    Insert(Insert(EmptyMap, U32(0),
                  [NewObject(U32(0), 1, 0, 1000, AddTime)
                      EXCEPT !.x = 600, !.y = 500, !.angle = 6200,
                             !.last_update = MoveTime]),
           U32(1), NewObject(U32(1), 2, 0, 1000, AddTime))

InitVelocity == InitWith(U32(0), StartTime, TwoObjects, U32(2))

SpecVelocity == InitVelocity /\ [][NextVelocity]_vars

\* The commands around a moving object: it is moved, the other object is
\* removed and added again, the canvas is resized, before and after a tick
\* of the producer.
NextMoves ==
    \/ \E port \in Ports : start_server(port, TRUE)
    \/ add_object(2, 0, 1000)
    \/ \E m \in Moves : update_object(Mover, m[1], m[2], m[3])
    \/ \E id \in LiveIds \ {Mover} : remove_object(id)
    \/ set_canvas_dimensions(40000, 480)
    \/ Produce(CmdTicks)
    \/ Sleep

SpecMoves == InitVelocity /\ [][NextMoves]_vars

\* The scheduling the runtime guarantees: a task that can take a step takes
\* it (the producer's iteration and sleep, a connection's upgrade, send
\* loop, receive task and join). Commands and clients are under no
\* obligation.
TaskFairness ==
    /\ WF_vars(Tick)
    /\ WF_vars(Sleep)
    /\ \A p \in Peers :
          /\ WF_vars(\E ok \in BOOLEAN : Handshake(p, ok))
          /\ WF_vars(ReceiveTaskEnd(p))
          /\ WF_vars(PeerRecv(p))
          /\ WF_vars(PeerJoin(p))

\* The server, its producer and its clients under that scheduling.
SpecFair == Init /\ [][NextWrap]_vars /\ TaskFairness

\* ------------------------------------------ commands running step by step
\*
\* Tauri runs every command on the runtime's worker threads, so two
\* commands, and the tasks they spawn, interleave between any two of their
\* lock sections. A step below is one lock section of the source (or one
\* spawn or await); `held` is the set of guards the caller or task has
\* alive at the acquisition the step starts with.

InCall(op, pc, arg, loc, held) ==
    [op |-> op, pc |-> pc, arg |-> arg, loc |-> loc, held |-> held]

At(k, op, pc) == calls[k].op = op /\ calls[k].pc = pc

Idle(k) == calls[k].pc = "idle"

\* add_object up to the end of its first lock section: the range checks
\* and the search for the component id.
AddObjectCheck(k, component_id, x, y) ==
    /\ Idle(k)
    /\ IF ~(1 <= component_id /\ component_id <= 24)
       THEN /\ result' = Err("add_object", "Component ID must be in range [1, 24]")
            /\ UNCHANGED calls
       ELSE IF ~InUnit(x) \/ ~InUnit(y)
       THEN /\ result' = Err("add_object", "Coordinates must be in range [0.0, 1.0]")
            /\ UNCHANGED calls
       ELSE IF ComponentInUse(objects, component_id)
       THEN /\ result' = ErrWith("add_object", "Component ID {} is already in use",
                                     component_id)
            /\ UNCHANGED calls
       ELSE /\ calls' = [calls EXCEPT ![k] =
                            InCall("add_object", "allocate", <<component_id, x, y>>,
                                   <<>>, {"objects"})]
            /\ UNCHANGED result
    /\ UNCHANGED <<tasks, storeVars, config, serverVars, connected_clients, netVars,
                   frameVars, now>>

\* allocate_session_id and the timestamp.
AddObjectAllocate(k) ==
    /\ At(k, "add_object", "allocate")
    /\ adds < MaxAdds
    /\ next_session_id' = wrapping_add1(next_session_id)
    /\ adds' = adds + 1
    /\ calls' = [calls EXCEPT ![k].pc = "insert",
                              ![k].loc = <<next_session_id, now>>,
                              ![k].held = {"next_session_id"}]
    /\ UNCHANGED <<tasks, objects, config, serverVars, connected_clients, netVars,
                   frameVars, now, result>>

\* The second lock section: the insert, and the return.
AddObjectInsert(k) ==
    /\ At(k, "add_object", "insert")
    /\ LET session_id == calls[k].loc[1]
           arg        == calls[k].arg
       IN  /\ objects' = Insert(objects, session_id,
                                NewObject(session_id, arg[1], arg[2], arg[3],
                                          calls[k].loc[2]))
           /\ result' = Ok("add_object", session_id)
    /\ calls' = [calls EXCEPT ![k] = NoCall]
    /\ UNCHANGED <<tasks, next_session_id, adds, config, serverVars, connected_clients,
                   netVars, frameVars, now>>

\* ------------------------------------------------ tasks running step by step

\* A task tokio::spawn created. `handle` says that the slot that keeps its
\* JoinHandle (AppState::frame_task, WebSocketServer::server_task) still
\* holds it; `abort` that JoinHandle::abort was called on it. A task that is
\* aborted is cancelled where it is suspended: before its first poll, or
\* in an await that is pending.
NewTask(kind) ==
    [kind |-> kind, pc |-> "start", handle |-> FALSE, abort |-> FALSE,
     loc |-> <<>>, held |-> {}]

Producers == {i \in DOMAIN tasks : tasks[i].kind = "producer"}

Acceptors == {i \in DOMAIN tasks : tasks[i].kind = "acceptor"}

Ended(i) == tasks[i].pc \in {"exited", "cancelled"}

Suspended(i) == tasks[i].pc \in {"start", "sleep", "accept"}

TaskAt(i, pc) == i \in Producers /\ tasks[i].pc = pc

\* The runtime drops a task that was aborted.
TaskCancel(i) ==
    /\ i \in DOMAIN tasks
    /\ Suspended(i)
    /\ tasks[i].abort
    /\ tasks' = [tasks EXCEPT ![i].pc = "cancelled", ![i].held = {}]
    /\ UNCHANGED <<calls, storeVars, config, serverVars, connected_clients, netVars,
                   frameVars, now, result>>

\* frame_generation_loop: the check of the flag at the top of the loop.
LoopCheck(i, limit) ==
    /\ i \in Producers
    /\ tasks[i].pc \in {"start", "check"}
    /\ ~tasks[i].abort \/ tasks[i].pc = "check"
    /\ IF server_running
       THEN /\ Len(published) < limit
            /\ tasks' = [tasks EXCEPT ![i].pc = "counter",
                                      ![i].held = {"server_running"}]
       ELSE tasks' = [tasks EXCEPT ![i].pc = "exited", ![i].held = {}]
    /\ UNCHANGED <<calls, storeVars, config, serverVars, connected_clients, netVars,
                   frameVars, now, result>>

\* generate_frame: the timestamp and increment_frame_counter.
GenerateCounter(i) ==
    /\ TaskAt(i, "counter")
    /\ frame_counter' = increment_frame_counter(frame_counter)
    /\ tasks' = [tasks EXCEPT ![i].pc = "config",
                              ![i].loc = [frame_id |-> frame_counter', timestamp |-> now],
                              ![i].held = {"frame_counter"}]
    /\ UNCHANGED <<calls, storeVars, config, serverVars, connected_clients, netVars,
                   published, events, last_broadcast, boot_frames, now, result>>

\* generate_frame: the canvas and the source, read under the config lock.
GenerateConfig(i) ==
    /\ TaskAt(i, "config")
    /\ tasks' = [tasks EXCEPT ![i].pc = "objects",
                              ![i].loc = [frame_id  |-> tasks[i].loc.frame_id,
                                          timestamp |-> tasks[i].loc.timestamp,
                                          width     |-> config.width,
                                          height    |-> config.height,
                                          source    |-> config.source],
                              ![i].held = {"config"}]
    /\ UNCHANGED <<calls, storeVars, config, serverVars, connected_clients, netVars,
                   frameVars, now, result>>

\* generate_frame: the velocities and the snapshot under the objects lock,
\* then the bundle.
GenerateObjects(i) ==
    /\ TaskAt(i, "objects")
    /\ \E order \in Orders(DOMAIN objects) :
         LET l        == tasks[i].loc
             objs     == calculate_velocities(objects, l.timestamp)
             snapshot == [j \in 1 .. Len(order) |-> objs[order[j]]]
             data     == create_and_encode_tuio_bundle(
                            l.frame_id, l.timestamp, l.width, l.height, l.source,
                            snapshot)
         IN  /\ objects' = objs
             /\ tasks' = [tasks EXCEPT ![i].pc = "event_counter",
                                       ![i].loc = [data |-> data],
                                       ![i].held = {"objects"}]
    /\ UNCHANGED <<calls, next_session_id, adds, config, serverVars, connected_clients,
                   netVars, frameVars, now, result>>

\* The loop reads the frame counter again for the event.
EventCounter(i) ==
    /\ TaskAt(i, "event_counter")
    /\ tasks' = [tasks EXCEPT ![i].pc = "event_objects",
                              ![i].loc = [data |-> tasks[i].loc.data,
                                          frame_id |-> frame_counter],
                              ![i].held = {"frame_counter"}]
    /\ UNCHANGED <<calls, storeVars, config, serverVars, connected_clients, netVars,
                   frameVars, now, result>>

\* The loop reads the size of the store for the event.
EventObjects(i) ==
    /\ TaskAt(i, "event_objects")
    /\ tasks' = [tasks EXCEPT ![i].pc = "event_emit",
                              ![i].loc = [data |-> tasks[i].loc.data,
                                          frame_id |-> tasks[i].loc.frame_id,
                                          object_count |-> Cardinality(DOMAIN objects)],
                              ![i].held = {"objects"}]
    /\ UNCHANGED <<calls, storeVars, config, serverVars, connected_clients, netVars,
                   frameVars, now, result>>

\* get_connected_clients, the event, the broadcast.
EventEmit(i) ==
    /\ TaskAt(i, "event_emit")
    /\ LET l    == tasks[i].loc
           sent == tx_send(chan, l.data)
       IN  /\ events' = emit_osc_message(l.frame_id, now, l.object_count,
                                         DataLen(l.data), get_connected_clients)
           /\ published' = Append(published, l.data)
           /\ broadcast_result(sent.res) # "Pending"
           /\ chan' = sent.chan
           /\ last_broadcast' = broadcast_result(sent.res)
    /\ tasks' = [tasks EXCEPT ![i].pc = "fps", ![i].loc = <<>>,
                              ![i].held = {"connected_clients"}]
    /\ UNCHANGED <<calls, storeVars, config, serverVars, connected_clients, peer,
                   received, lag_signals, frame_counter, boot_frames, now, result>>

\* The frame rate, read under the config lock, and the start of the sleep.
SleepStart(i) ==
    /\ TaskAt(i, "fps")
    /\ tasks' = [tasks EXCEPT ![i].pc = "sleep", ![i].held = {"config"}]
    /\ UNCHANGED <<calls, storeVars, config, serverVars, connected_clients, netVars,
                   frameVars, now, result>>

\* The sleep of a task that was not aborted elapses.
SleepEnd(i) ==
    /\ TaskAt(i, "sleep")
    /\ ~tasks[i].abort
    /\ tasks' = [tasks EXCEPT ![i].pc = "check", ![i].held = {}]
    /\ UNCHANGED <<calls, storeVars, config, serverVars, connected_clients, netVars,
                   frameVars, now, result>>

\* One step of the producer's iteration.
ProducerStep(i, limit) ==
    \/ LoopCheck(i, limit)
    \/ GenerateCounter(i)
    \/ GenerateConfig(i)
    \/ GenerateObjects(i)
    \/ EventCounter(i)
    \/ EventObjects(i)
    \/ EventEmit(i)
    \/ SleepStart(i)
    \/ SleepEnd(i)

\* The state start_server leaves when it runs alone and no task has run
\* yet: the flag set, the acceptor and the producer spawned, their handles
\* stored.
Started ==
    <<[NewTask("acceptor") EXCEPT !.handle = TRUE, !.pc = "accept"],
      [NewTask("producer") EXCEPT !.handle = TRUE]>>

InitObjects ==
    /\ objects = EmptyMap
    /\ next_session_id = U32(0)
    /\ frame_counter = U32(0)
    /\ boot_frames = U32(0)
    /\ config = DefaultConfig
    /\ server_running = TRUE
    /\ frame_task = "Some"
    /\ producer = "none"
    /\ wake = 0
    /\ server_task = "Some"
    /\ acceptor = "none"
    /\ connected_clients = 0
    /\ chan = <<>>
    /\ peer = [p \in Peers |-> NoPeer]
    /\ received = [p \in Peers |-> <<>>]
    /\ lag_signals = [p \in Peers |-> <<>>]
    /\ published = <<>>
    /\ events = [count |-> 0, last |-> NoEvent]
    /\ last_broadcast = "none"
    /\ now = 0
    /\ result = Ok("start_server", 0)
    /\ adds = 0
    /\ calls = [k \in Callers |-> NoCall]
    /\ tasks = Started

\* The commands on the store against the running producer: add_object
\* step by step from two callers, remove_object (one lock section).
ObjectCompIds == {1, 2}

NextObjects ==
    \/ \E k \in Callers, c \in ObjectCompIds : AddObjectCheck(k, c, 500, 500)
    \/ \E k \in Callers : AddObjectAllocate(k) \/ AddObjectInsert(k)
    \/ \E id \in {U32(0), U32(1)} : remove_object(id)
    \/ \E i \in DOMAIN tasks : ProducerStep(i, MaxTicks)

SpecObjects == InitObjects /\ [][NextObjects]_vars

\* ------------------------ start_server and stop_server running step by step

\* The start_server calls that are in flight.
Starting == {k \in Callers : calls[k].op = "start_server"}

\* WebSocketServer::stop keeps the guard of server_task from its first
\* statement to its return: nobody else gets that lock in between.
ServerTaskFree(k) == \A j \in Callers \ {k} : calls[j].pc # "ws_reset"

\* JoinHandle::abort on the tasks of `kind` whose handle is in its slot,
\* which Option::take empties.
TakeAndAbort(kind) ==
    [i \in DOMAIN tasks |->
        IF tasks[i].kind = kind /\ tasks[i].handle
        THEN [tasks[i] EXCEPT !.handle = FALSE, !.abort = TRUE]
        ELSE tasks[i]]

\* `*slot = Some(task)`: the handle of task `mine` is stored, and the handle
\* that was in the slot is dropped, which detaches its task.
StoreHandle(kind, mine) ==
    [i \in DOMAIN tasks |->
        IF tasks[i].kind = kind
        THEN [tasks[i] EXCEPT !.handle = (i = mine)]
        ELSE tasks[i]]

\* start_server: the check of the flag.
StartCheck(k, port) ==
    /\ Idle(k)
    /\ Len(tasks) + 2 * Cardinality(Starting) < 2 * MaxStarts
    /\ IF server_running
       THEN /\ result' = Err("start_server", "Server is already running")
            /\ UNCHANGED calls
       ELSE /\ calls' = [calls EXCEPT ![k] =
                            InCall("start_server", "config", port, <<>>,
                                   {"server_running"})]
            /\ UNCHANGED result
    /\ UNCHANGED <<tasks, storeVars, config, serverVars, connected_clients, netVars,
                   frameVars, now>>

\* start_server: the port is written to the configuration.
StartConfig(k) ==
    /\ At(k, "start_server", "config")
    /\ config' = [config EXCEPT !.port = calls[k].arg]
    /\ calls' = [calls EXCEPT ![k].pc = "ws_take", ![k].held = {"config"}]
    /\ UNCHANGED <<tasks, storeVars, serverVars, connected_clients, netVars, frameVars,
                   now, result>>

\* WebSocketServer::stop, called by WebSocketServer::start and by
\* stop_server: the handle of the acceptor is taken and the task aborted.
WsStopTake(k) ==
    /\ calls[k].pc = "ws_take"
    /\ ServerTaskFree(k)
    /\ tasks' = TakeAndAbort("acceptor")
    /\ server_task' = "None"
    /\ calls' = [calls EXCEPT ![k].pc = "ws_reset", ![k].held = {"server_task"}]
    /\ UNCHANGED <<storeVars, config, server_running, frame_task, producer, wake,
                   acceptor, connected_clients, netVars, frameVars, now, result>>

\* WebSocketServer::stop: the counter is reset while the guard of
\* server_task is alive; stop_server returns, start goes on to bind.
WsStopReset(k) ==
    /\ calls[k].pc = "ws_reset"
    /\ connected_clients' = 0
    /\ IF calls[k].op = "stop_server"
       THEN /\ calls' = [calls EXCEPT ![k] = NoCall]
            /\ result' = stop_result
       ELSE /\ calls' = [calls EXCEPT ![k].pc = "bind",
                                      ![k].held = {"server_task", "connected_clients"}]
            /\ UNCHANGED result
    /\ UNCHANGED <<tasks, storeVars, config, serverVars, netVars, frameVars, now>>

\* The listeners that are open: an accept loop owns its listener until the
\* task ends.
Listening == {i \in Acceptors : ~Ended(i)}

\* WebSocketServer::start: bind, which fails while a listener is open on
\* the port, and the spawn of the accept loop.
WsBind(k, bind_ok) ==
    /\ At(k, "start_server", "bind")
    /\ bind_ok => Listening = {}
    /\ IF bind_ok
       THEN /\ tasks' = Append(tasks, [NewTask("acceptor") EXCEPT !.pc = "accept"])
            /\ calls' = [calls EXCEPT ![k].pc = "ws_store",
                                      ![k].loc = <<Len(tasks) + 1>>,
                                      ![k].held = {}]
            /\ UNCHANGED result
       ELSE /\ calls' = [calls EXCEPT ![k] = NoCall]
            /\ result' = Err("start_server", "Failed to start WebSocket server")
            /\ UNCHANGED tasks
    /\ UNCHANGED <<storeVars, config, serverVars, connected_clients, netVars, frameVars,
                   now>>

\* WebSocketServer::start: the handle of the accept loop is stored.
WsStore(k) ==
    /\ At(k, "start_server", "ws_store")
    /\ ServerTaskFree(k)
    /\ tasks' = StoreHandle("acceptor", calls[k].loc[1])
    /\ server_task' = "Some"
    /\ calls' = [calls EXCEPT ![k].pc = "spawn", ![k].loc = <<>>,
                              ![k].held = {"server_task"}]
    /\ UNCHANGED <<storeVars, config, server_running, frame_task, producer, wake,
                   acceptor, connected_clients, netVars, frameVars, now, result>>

\* start_server: the producer is spawned.
StartSpawn(k) ==
    /\ At(k, "start_server", "spawn")
    /\ tasks' = Append(tasks, NewTask("producer"))
    /\ calls' = [calls EXCEPT ![k].pc = "store", ![k].loc = <<Len(tasks) + 1>>,
                              ![k].held = {}]
    /\ UNCHANGED <<storeVars, config, serverVars, connected_clients, netVars, frameVars,
                   now, result>>

\* start_server: the handle of the producer is stored.
StartStore(k) ==
    /\ At(k, "start_server", "store")
    /\ tasks' = StoreHandle("producer", calls[k].loc[1])
    /\ frame_task' = "Some"
    /\ calls' = [calls EXCEPT ![k].pc = "set", ![k].loc = <<>>,
                              ![k].held = {"frame_task"}]
    /\ UNCHANGED <<storeVars, config, server_running, producer, wake, server_task,
                   acceptor, connected_clients, netVars, frameVars, now, result>>

\* start_server: the flag is set, and the command returns.
StartSet(k) ==
    /\ At(k, "start_server", "set")
    /\ server_running' = TRUE
    /\ calls' = [calls EXCEPT ![k] = NoCall]
    /\ result' = Ok("start_server", 0)
    /\ UNCHANGED <<tasks, storeVars, config, frame_task, producer, wake, server_task,
                   acceptor, connected_clients, netVars, frameVars, now>>

\* stop_server: the flag is cleared.
StopClear(k) ==
    /\ Idle(k)
    /\ server_running' = FALSE
    /\ calls' = [calls EXCEPT ![k] =
                    InCall("stop_server", "take", 0, <<>>, {"server_running"})]
    /\ UNCHANGED <<tasks, storeVars, config, frame_task, producer, wake, server_task,
                   acceptor, connected_clients, netVars, frameVars, now, result>>

\* stop_server: the handle of the producer is taken and the task aborted.
StopTake(k) ==
    /\ At(k, "stop_server", "take")
    /\ tasks' = TakeAndAbort("producer")
    /\ frame_task' = "None"
    /\ calls' = [calls EXCEPT ![k].pc = "ws_take", ![k].held = {"frame_task"}]
    /\ UNCHANGED <<storeVars, config, server_running, producer, wake, server_task,
                   acceptor, connected_clients, netVars, frameVars, now, result>>

\* One step of a start_server or stop_server call.
StartStep(k) ==
    \/ \E port \in Ports : StartCheck(k, port)
    \/ StartConfig(k)
    \/ \E bind_ok \in BOOLEAN : WsBind(k, bind_ok)
    \/ WsStore(k)
    \/ StartSpawn(k)
    \/ StartStore(k)
    \/ StartSet(k)

StopStep(k) ==
    \/ StopClear(k)
    \/ StopTake(k)

NextTasks ==
    \/ \E k \in Callers : StartStep(k) \/ StopStep(k) \/ WsStopTake(k) \/ WsStopReset(k)
    \/ \E i \in DOMAIN tasks : ProducerStep(i, TaskTicks) \/ TaskCancel(i)

SpecTasks == Init /\ [][NextTasks]_vars

\* --------------------------------------- get_server_status step by step

\* get_server_status keeps the guard of config from its second statement
\* to its return: nobody else gets that lock in between.
ConfigFree(k) ==
    \A j \in Callers \ {k} :
        ~(calls[j].op = "get_server_status" /\ calls[j].pc # "config")

\* `let running = *state.server_running.lock();`
StatusRunning(k) ==
    /\ Idle(k)
    /\ calls' = [calls EXCEPT ![k] =
                    InCall("get_server_status", "config", 0,
                           [running |-> server_running], {"server_running"})]
    /\ UNCHANGED <<tasks, storeVars, config, serverVars, connected_clients, netVars,
                   frameVars, now, result>>

\* `let config = state.config.lock();`
StatusConfig(k) ==
    /\ At(k, "get_server_status", "config")
    /\ ConfigFree(k)
    /\ calls' = [calls EXCEPT ![k].pc = "clients",
                              ![k].loc = [running |-> calls[k].loc.running,
                                          port |-> config.port, fps |-> config.fps],
                              ![k].held = {"config"}]
    /\ UNCHANGED <<tasks, storeVars, config, serverVars, connected_clients, netVars,
                   frameVars, now, result>>

\* `connected_clients: state.get_connected_clients()`
StatusClients(k) ==
    /\ At(k, "get_server_status", "clients")
    /\ calls' = [calls EXCEPT ![k].pc = "counter",
                              ![k].loc = [running |-> calls[k].loc.running,
                                          port |-> calls[k].loc.port,
                                          fps |-> calls[k].loc.fps,
                                          connected_clients |-> get_connected_clients],
                              ![k].held = {"config", "connected_clients"}]
    /\ UNCHANGED <<tasks, storeVars, config, serverVars, connected_clients, netVars,
                   frameVars, now, result>>

\* `frame_count: *state.frame_counter.lock()`
StatusCounter(k) ==
    /\ At(k, "get_server_status", "counter")
    /\ calls' = [calls EXCEPT ![k].pc = "objects",
                              ![k].loc = [running |-> calls[k].loc.running,
                                          port |-> calls[k].loc.port,
                                          fps |-> calls[k].loc.fps,
                                          connected_clients |->
                                              calls[k].loc.connected_clients,
                                          frame_count |-> frame_counter],
                              ![k].held = {"config", "frame_counter"}]
    /\ UNCHANGED <<tasks, storeVars, config, serverVars, connected_clients, netVars,
                   frameVars, now, result>>

\* `object_count: state.objects.lock().len()`, and the return.
StatusObjects(k) ==
    /\ At(k, "get_server_status", "objects")
    /\ result' = Ok("get_server_status",
                    [running |-> calls[k].loc.running,
                     port |-> calls[k].loc.port,
                     fps |-> calls[k].loc.fps,
                     connected_clients |-> calls[k].loc.connected_clients,
                     frame_count |-> calls[k].loc.frame_count,
                     object_count |-> Cardinality(DOMAIN objects)])
    /\ calls' = [calls EXCEPT ![k] = NoCall]
    /\ UNCHANGED <<tasks, storeVars, config, serverVars, connected_clients, netVars,
                   frameVars, now>>

StatusStep(k) ==
    \/ StatusRunning(k)
    \/ StatusConfig(k)
    \/ StatusClients(k)
    \/ StatusCounter(k)
    \/ StatusObjects(k)

\* get_server_status from two callers against add_object, remove_object and
\* stop_server on a running server.
NextStatus ==
    \/ \E k \in Callers : StatusStep(k)
    \/ \E k \in Callers : AddObjectCheck(k, 1, 500, 500)
    \/ \E k \in Callers : AddObjectAllocate(k) \/ AddObjectInsert(k)
    \/ \E id \in {U32(0), U32(1)} : remove_object(id)
    \/ \E k \in Callers : StopStep(k) \/ WsStopTake(k) \/ WsStopReset(k)
    \/ \E i \in DOMAIN tasks : TaskCancel(i)

SpecStatus == InitObjects /\ [][NextStatus]_vars

\* ------------------------------------------- moves inside a frame interval

\* Part of the producer's sleep goes by.
Elapse(ms) ==
    /\ producer = "alive"
    /\ now + ms < wake
    /\ now' = now + ms
    /\ UNCHANGED <<calls, tasks, storeVars, config, serverVars, connected_clients, netVars,
                   frameVars, result>>

\* The parts of the 16 ms between two frames after which the clock is read.
Waits == {4}

\* The mover is moved at several moments between the first frame, which
\* commits the shadow of both objects (they were last touched more than
\* 1 ms before it), and the second.
NextInterval ==
    \/ \E port \in Ports : start_server(port, TRUE)
    \/ /\ published # <<>>
       /\ \E m \in Moves : update_object(Mover, m[1], m[2], m[3])
    \/ Produce(MaxTicks)
    \/ Sleep
    \/ \E ms \in Waits : Elapse(ms)

SpecInterval == InitVelocity /\ [][NextInterval]_vars

\* ------------------------------------------------ the locks, held and awaited
\*
\* The steps above take a lock and do the work under it. Below, the lock
\* stays with the caller or task until it unlocks in a step of its own, a
\* step that needs a lock waits until nobody holds it (parking_lot's Mutex
\* is not reentrant), and a guard bound to a local that is still in scope
\* is kept across the steps that follow.

\* The guards a command keeps while it goes on: get_server_status its
\* `config`, WebSocketServer::stop its `server_task`.
CallKeeps(k) ==
    IF calls[k].op = "get_server_status" /\ calls[k].pc \in {"clients", "counter", "objects"}
    THEN {"config"}
    ELSE IF calls[k].pc = "ws_reset"
    THEN {"server_task"}
    ELSE {}

\* Fault: generate_frame keeps the guard of the frame counter while it
\* locks the configuration.
TaskKeeps_counter_kept(i) ==
    IF tasks[i].pc = "config" THEN {"frame_counter"} ELSE {}

\* The guards a task keeps while it goes on: every guard of the producer
\* is dropped, or is a temporary, before the next lock is taken.
TaskKeeps(i) == {}

\* The lock the next step of a command takes; a caller that is idle starts
\* get_server_status or stop_server, which lock the flag first.
CallWants(k) ==
    CASE calls[k].pc = "idle"    -> "server_running"
      [] calls[k].pc = "config"  -> "config"
      [] calls[k].pc = "clients" -> "connected_clients"
      [] calls[k].pc = "counter" -> "frame_counter"
      [] calls[k].pc = "objects" -> "objects"
      [] calls[k].pc = "take"    -> "frame_task"
      [] calls[k].pc = "ws_take" -> "server_task"
      [] calls[k].pc = "ws_reset" -> "connected_clients"
      [] OTHER -> "none"

\* The lock the next step of the producer takes.
TaskWants(i) ==
    CASE tasks[i].pc \in {"start", "check"} -> "server_running"
      [] tasks[i].pc = "counter"       -> "frame_counter"
      [] tasks[i].pc = "config"        -> "config"
      [] tasks[i].pc = "objects"       -> "objects"
      [] tasks[i].pc = "event_counter" -> "frame_counter"
      [] tasks[i].pc = "event_objects" -> "objects"
      [] tasks[i].pc = "event_emit"    -> "connected_clients"
      [] tasks[i].pc = "fps"           -> "config"
      [] OTHER -> "none"

CallHolds(k, lock) == lock \in calls[k].held

TaskHolds(i, lock) == lock \in tasks[i].held

Locked(lock) ==
    \/ \E k \in Callers : CallHolds(k, lock)
    \/ \E i \in DOMAIN tasks : TaskHolds(i, lock)

\* The guards whose scope has ended are dropped.
UnlockCall(k) ==
    /\ ~(calls[k].held \subseteq CallKeeps(k))
    /\ calls' = [calls EXCEPT ![k].held = @ \cap CallKeeps(k)]
    /\ UNCHANGED <<tasks, storeVars, config, serverVars, connected_clients, netVars,
                   frameVars, now, result>>

UnlockTask(i) ==
    /\ i \in DOMAIN tasks
    /\ ~(tasks[i].held \subseteq TaskKeeps(i))
    /\ tasks' = [tasks EXCEPT ![i].held = @ \cap TaskKeeps(i)]
    /\ UNCHANGED <<calls, storeVars, config, serverVars, connected_clients, netVars,
                   frameVars, now, result>>

\* A step of get_server_status or stop_server, once its lock is free.
LockedCall(k) ==
    /\ calls[k].held \subseteq CallKeeps(k)
    /\ ~Locked(CallWants(k))
    /\ StatusStep(k) \/ StopStep(k) \/ WsStopTake(k) \/ WsStopReset(k)

\* A step of the producer, once its lock is free.
LockedTask(i) ==
    /\ i \in Producers
    /\ tasks[i].held \subseteq TaskKeeps(i)
    /\ ~Locked(TaskWants(i))
    /\ ProducerStep(i, TaskTicks)

\* get_server_status and stop_server from two callers against the producer
\* of a running server.
NextLocks ==
    \/ \E k \in Callers : LockedCall(k) \/ UnlockCall(k)
    \/ \E i \in DOMAIN tasks : LockedTask(i) \/ UnlockTask(i) \/ TaskCancel(i)

SpecLocks == InitObjects /\ [][NextLocks]_vars

\* The tasks of the running server.
TaskIds == DOMAIN Started

\* A thread that runs goes on: it unlocks, and a task that was aborted is
\* dropped. A thread that waits for a lock gets it if the lock is free
\* again and again: parking_lot hands a lock over to the thread that waits
\* for it (its unlock is fair after at most about 0.5 ms of contention).
\* Nothing makes a caller start a command.
LockFairness ==
    /\ \A k \in Callers :
          /\ WF_vars(UnlockCall(k))
          /\ SF_vars(~Idle(k) /\ LockedCall(k))
    /\ \A i \in TaskIds :
          /\ WF_vars(UnlockTask(i))
          /\ WF_vars(TaskCancel(i))
          /\ SF_vars(LockedTask(i))

SpecLocksFair == SpecLocks /\ LockFairness

\* ============================================================ properties

\* Everything but the result handed back to the caller.
programVars ==
    <<objects, next_session_id, frame_counter, config, server_running, frame_task,
      producer, wake, server_task, acceptor, connected_clients, chan, peer,
      received, lag_signals, published, events, last_broadcast, now, adds,
      boot_frames>>

\* ---------------------------------------------------------------- C1
\* C1: start_server called while the server is Running returns an error
\* and changes nothing: not the running flag, the configuration, the
\* producer task, the acceptor or the connected-clients counter (nor any
\* other part of the state).
C1_StartWhileRunningRejected ==
    [][\A port \in Ports, bind_ok \in BOOLEAN :
          (server_running /\ start_server(port, bind_ok)) =>
              /\ ~result'.ok
              /\ result'.op = "start_server"
              /\ UNCHANGED programVars]_vars

\* A start_server call was rejected while the producer and the acceptor
\* ran and a client was connected.
C1_Witness ==
    /\ result = [op |-> "start_server", ok |-> FALSE, val |-> <<"Server is already running">>]
    /\ server_running /\ producer = "alive" /\ acceptor = "alive"
    /\ connected_clients = 1
    /\ Len(published) > 0

\* ---------------------------------------------------------------- C2
BindFailed ==
    result = [op |-> "start_server", ok |-> FALSE,
              val |-> <<"Failed to start WebSocket server">>]

\* C2: when the bind fails, start_server returns an error and the server
\* remains Stopped: the running flag stays false, no producer task is
\* spawned, no acceptor exists, and no frame is produced afterwards (for
\* as long as no other lifecycle command is called).
C2_BindFailureStaysStopped ==
    /\ [][\A port \in Ports :
             (~server_running /\ start_server(port, FALSE)) =>
                 /\ BindFailed'
                 /\ ~server_running'
                 /\ frame_task' = "None" /\ producer' # "alive"
                 /\ server_task' = "None" /\ acceptor' # "alive"]_vars
    /\ [](BindFailed =>
             /\ ~server_running
             /\ frame_task = "None" /\ producer # "alive"
             /\ server_task = "None" /\ acceptor # "alive")
    /\ [][(BindFailed /\ BindFailed') =>
             (published' = published /\ frame_counter' = frame_counter)]_vars

\* A bind failure after an earlier run of the server that produced frames
\* and still has a client's connection task alive.
C2_Witness ==
    /\ BindFailed
    /\ Len(published) > 0
    /\ \E p \in Peers : peer[p].st = "loop"

\* ---------------------------------------------------------------- C3
\* C3: stop_server is idempotent: from any state it returns OK, and
\* get_server_status.running is false after each call; a stop_server
\* called after an earlier stop_server, with no other command in between,
\* returns OK and leaves every part of the state unchanged.
C3_StopIdempotent ==
    [][stop_server =>
          /\ result' = [op |-> "stop_server", ok |-> TRUE, val |-> 0]
          /\ ~get_server_status'.running
          /\ (result.op = "stop_server" => UNCHANGED vars)]_vars

\* The server was stopped after it ran: frames were produced and a
\* client's connection task is still alive.
C3_Witness ==
    /\ result = [op |-> "stop_server", ok |-> TRUE, val |-> 0]
    /\ ~server_running /\ producer = "none" /\ acceptor = "none"
    /\ Len(published) > 0
    /\ \E p \in Peers : peer[p].st = "loop"

\* ------------------------------------------------------- frames on the wire

\* The messages of a frame, in the order of the bundle.
Messages(data) == [i \in 1 .. Len(data.elements) |-> data.elements[i].msg]

\* The frame id a frame carries in its FRM message.
FrameId(data) == data.elements[1].msg.args[1]

\* The successor modulo 2^32 of a frame id as carried on the wire (an
\* int32 that holds the low 32 bits of the counter).
WireSucc(id) == IF id = 2147483647 THEN -2147483647 - 1 ELSE id + 1

\* ---------------------------------------------------------------- C4
\* C4: each published frame carries the frame id of the previously
\* published frame plus one, modulo 2^32, also across a stop and a later
\* start and across the counter's wrap; the first frame published after
\* the process started carries frame id 1.
C4_FrameIdsConsecutive ==
    /\ \A i \in 1 .. Len(published) - 1 :
           FrameId(published[i + 1]) = WireSucc(FrameId(published[i]))
    /\ (boot_frames = U32(0) /\ published # <<>>) => FrameId(published[1]) = 1

\* The counter wrapped from 2^32 - 1 to 0 between two frames that a stop
\* and a start of the server separate (both were produced at the same
\* time, so by two producer tasks).
C4_Witness ==
    /\ Len(published) = 2
    /\ FrameId(published[1]) = -1
    /\ FrameId(published[2]) = 0
    /\ published[2].elements[1].msg.args[2] = published[1].elements[1].msg.args[2]
    /\ result = [op |-> "start_server", ok |-> TRUE, val |-> 0]

\* ---------------------------------------------------------------- C5
\* C5: each frame is one bundle holding, in this order, one FRM message,
\* one TOK message for each object of the snapshot taken in that tick, and
\* one ALV message; the ALV message has as many arguments as the snapshot
\* has objects, and they are the objects' session ids in the order of the
\* TOK messages.
C5_FrameLayout ==
    [][published' # published =>
          LET data == published'[Len(published')]
              msgs == Messages(data)
              n    == Len(msgs)
              toks == [i \in 1 .. n - 2 |-> msgs[i + 1]]
              alv  == msgs[n]
          IN  /\ published' = Append(published, data)
              /\ data.magic = "#bundle"
              /\ n = Cardinality(DOMAIN objects') + 2
              /\ msgs[1].addr = "/tuio2/frm"
              /\ \A i \in 1 .. n - 2 : toks[i].addr = "/tuio2/tok"
              /\ alv.addr = "/tuio2/alv"
              /\ {toks[i].args : i \in 1 .. n - 2} =
                    {TokenMessage_to_osc(objects'[id]).args : id \in DOMAIN objects'}
              /\ Len(alv.args) = Cardinality(DOMAIN objects')
              /\ \A i \in 1 .. n - 2 : alv.args[i] = toks[i].args[1]]_vars

\* A frame of two objects whose TOK messages are not in the order of the
\* session ids.
C5_Witness ==
    /\ published # <<>>
    /\ LET msgs == Messages(published[Len(published)])
       IN  /\ Len(msgs) = 4
           /\ msgs[2].args[1] > msgs[3].args[1]
           /\ msgs[4].args = <<msgs[2].args[1], msgs[3].args[1]>>

\* --------------------------------------------------------------- C10
\* C10: add_object with a component id that a live object already has
\* returns an error, leaves the store unchanged and allocates no session
\* id; once that object has been removed, add_object with the same
\* component id (and valid coordinates) succeeds again.
C10_ComponentIdUnique ==
    [][\A c \in CompIds, pt \in Points :
          (result'.op = "add_object" /\ add_object(c, pt[1], pt[2])) =>
              IF \E id \in DOMAIN objects : objects[id].component_id = c
              THEN /\ ~result'.ok
                   /\ objects' = objects
                   /\ next_session_id' = next_session_id
              ELSE (1 <= c /\ c <= 24 /\ InUnit(pt[1]) /\ InUnit(pt[2])) =>
                      /\ result' = [op |-> "add_object", ok |-> TRUE,
                                    val |-> next_session_id]
                      /\ next_session_id \notin DOMAIN objects
                      /\ DOMAIN objects' = DOMAIN objects \cup {next_session_id}
                      /\ objects'[next_session_id].component_id = c
                      /\ \A id \in DOMAIN objects : objects'[id] = objects[id]]_vars

\* An add_object was rejected for the component id of the one live object,
\* which was itself added after an earlier object had been removed.
C10_Witness ==
    /\ next_session_id = U32(2)
    /\ DOMAIN objects = {U32(1)}
    /\ result = [op |-> "add_object", ok |-> FALSE,
                 val |-> <<"Component ID {} is already in use",
                           objects[U32(1)].component_id>>]

\* ------------------------------------------------------------ subscribers

\* The frame id k frames after the frame with id `id`.
RECURSIVE WireAdd(_, _)
WireAdd(id, k) == IF k = 0 THEN id ELSE WireAdd(WireSucc(id), k - 1)

\* A subscriber that never lagged.
NeverLagged(p) == lag_signals[p] = <<>>

\* A subscriber whose connection is established or being established and
\* whose client has not closed it.
Connected(p) == peer[p].st \in {"handshake", "loop"} /\ peer[p].sock = "open"

C7_EveryFrameOnce ==
    \A p \in Peers :
        (NeverLagged(p) /\ Connected(p)) =>
            LET n == Len(received[p])
            IN  /\ peer[p].sub_at + n <= Len(published)
                /\ received[p] = SubSeq(published, peer[p].sub_at + 1, peer[p].sub_at + n)
                /\ peer[p].next = Len(chan) => peer[p].sub_at + n = Len(published)

\* A subscriber that joined after a frame was published to another
\* subscriber has received the one frame published since and not the
\* earlier one, which the channel still holds.
C7_Witness ==
    \E p \in Peers :
        /\ NeverLagged(p) /\ Connected(p)
        /\ peer[p].st = "loop"
        /\ peer[p].sub_at = 1
        /\ Len(chan) = 2
        /\ peer[p].next = Len(chan)
        /\ received[p] = <<published[2]>>

\* ------------------------------------------------------------------ lag

\* How many frames of the channel a subscriber has not read yet.
Behind(p) == Len(chan) - peer[p].next

\* ---------------------------------------------------------------- C8
\* C8: a subscriber that is at least 100 frames behind gets, on its next
\* read, a lag signal, is not disconnected, and resumes from the newest
\* frame (its next read is of the newest frame).
C8_LagAtHundredResumesNewest ==
    [][\A p \in Peers :
          (PeerRecv(p) /\ Behind(p) >= ChannelRequest) =>
              /\ Len(lag_signals'[p]) = Len(lag_signals[p]) + 1
              /\ peer'[p].st = "loop"
              /\ peer'[p].next = Len(chan) - 1]_vars

\* C8, what the code does instead: only a subscriber that is more than 128
\* frames behind (the channel's capacity: the requested 100 rounded up to
\* a power of two) gets, on its next read, a lag signal with the number n
\* of frames it has lost; it is not disconnected and resumes from the
\* oldest frame the channel still holds. A subscriber that is at most 128
\* frames behind is handed its next frame with no lag signal. Meanwhile
\* every subscriber that never lagged still receives every published
\* frame, and the lag signal leaves the producer as it is.
C8_LagBeyondCapacityResumesOldest ==
    /\ [][\A p \in Peers :
             PeerRecv(p) =>
                 IF Behind(p) > Capacity
                 THEN /\ lag_signals'[p] = Append(lag_signals[p], Behind(p) - Capacity)
                      /\ Behind(p) - Capacity =
                            Cardinality({i \in peer[p].next + 1 .. Len(chan) :
                                            i + Capacity <= Len(chan)})
                      /\ peer'[p].st = "loop" /\ peer'[p].sock = peer[p].sock
                      /\ received'[p] = received[p]
                      /\ peer'[p].next = Len(chan) - Capacity
                      /\ UNCHANGED <<producer, wake, server_running, frame_task,
                                     published, chan, connected_clients>>
                      /\ \A q \in Peers \ {p} :
                            /\ peer'[q] = peer[q]
                            /\ received'[q] = received[q]
                            /\ lag_signals'[q] = lag_signals[q]
                 ELSE /\ lag_signals'[p] = lag_signals[p]
                      /\ received'[p] = Append(received[p], chan[peer[p].next + 1])
                      /\ peer'[p].next = peer[p].next + 1]_vars
    /\ [](\A q \in Peers :
             (NeverLagged(q) /\ Connected(q)) =>
                 /\ received[q] = SubSeq(published, peer[q].sub_at + 1,
                                         peer[q].sub_at + Len(received[q]))
                 /\ peer[q].next = Len(chan) =>
                       peer[q].sub_at + Len(received[q]) = Len(published))

\* Client 1 lagged twice, by one frame each time and with a frame
\* published in between, is still served and has then been handed the
\* oldest frame the channel holds, while client 2 has received every
\* frame published since it subscribed.
C8_Witness ==
    /\ lag_signals[1] = <<1, 1>>
    /\ peer[1].st = "loop"
    /\ Len(received[1]) >= 1
    /\ received[1][Len(received[1])] = chan[Len(chan) - Capacity + 1]
    /\ NeverLagged(2) /\ Connected(2)
    /\ Len(received[2]) > Capacity
    /\ peer[2].sub_at + Len(received[2]) = Len(published)

\* ---------------------------------------------------------------- C9
\* C9: the broadcast never blocks on a subscriber and never fails because
\* of the subscribers: it returns success when nobody is subscribed and
\* when a subscriber's buffer is full, and whenever the producer is due
\* its tick can be taken, whatever the subscribers have read.
C9_BroadcastNeverBlocksNorFails ==
    /\ published # <<>> => last_broadcast = "Ok"
    /\ (producer = "alive" /\ server_running /\ now >= wake
           /\ Len(published) < Capacity + LagSlack)
          => ENABLED Produce(Capacity + LagSlack)

\* A frame was published while nobody was subscribed, and later a frame
\* was published while a subscriber had a whole channel of unread frames.
C9_Witness ==
    /\ Len(published) > Len(chan)
    /\ \E p \in Peers : peer[p].st = "loop" /\ Behind(p) > Capacity
    /\ last_broadcast = "Ok"

\* ------------------------------------------------------- store and config

\* A coordinate outside [0.0, 1.0], in thousandths.
OutOfUnit(v) == v < 0 \/ v > 1000

\* --------------------------------------------------------------- C11
\* C11: every object or config command that returns an error leaves all
\* state unchanged (store, session-id counter, config, frame counter and
\* everything else): add_object with a component id outside [1, 24] or x
\* or y outside [0, 1]; update_object with x or y outside [0, 1] or with
\* an unknown session id; remove_object with an unknown session id;
\* set_frame_rate with fps outside [1, 120], 0 included;
\* set_canvas_dimensions with width 0 or height 0. Each of these calls
\* does return an error.
C11_ErrorsChangeNothing ==
    [][/\ result'.op = "add_object" => \A c \in OneCompId, pt \in Points :
             ((c < 1 \/ c > 24 \/ OutOfUnit(pt[1]) \/ OutOfUnit(pt[2]))
                 /\ add_object(c, pt[1], pt[2]))
             => (~result'.ok /\ UNCHANGED programVars)
       /\ result'.op = "update_object" => \A id \in IdInputs, x \in {600, 1001} :
             ((OutOfUnit(x) \/ id \notin DOMAIN objects)
                 /\ update_object(id, x, 500, 1570))
             => (~result'.ok /\ UNCHANGED programVars)
       /\ result'.op = "remove_object" => \A id \in IdInputs :
             (id \notin DOMAIN objects /\ remove_object(id))
             => (~result'.ok /\ UNCHANGED programVars)
       /\ result'.op = "set_frame_rate" => \A fps \in FpsInputs :
             ((fps < 1 \/ fps > 120) /\ set_frame_rate(fps))
             => (~result'.ok /\ UNCHANGED programVars)
       /\ result'.op = "set_canvas_dimensions" => \A d \in DimInputs :
             ((d[1] = 0 \/ d[2] = 0) /\ set_canvas_dimensions(d[1], d[2]))
             => (~result'.ok /\ UNCHANGED programVars)]_vars

\* set_frame_rate was rejected in a state with a live object, a frame
\* produced and a frame rate and canvas size that are not the defaults.
C11_Witness ==
    /\ result = [op |-> "set_frame_rate", ok |-> FALSE,
                 val |-> <<"FPS must be in range [1, 120]">>]
    /\ objects # EmptyMap
    /\ published # <<>>
    /\ config.fps = 120
    /\ config.width = 40000

\* The TOK messages of a frame.
Toks(data) ==
    {m \in {data.elements[i].msg : i \in 1 .. Len(data.elements)} :
        m.addr = "/tuio2/tok"}

\* --------------------------------------------------------------- C12
\* C12: in every reachable state, after any sequence of add_object,
\* update_object, remove_object and ticks, every object in the store has
\* 0 <= x <= 1 and 0 <= y <= 1, and so has every TOK of every produced
\* frame.
C12_CoordinatesInUnitRange ==
    /\ \A id \in DOMAIN objects :
          /\ 0 <= objects[id].x /\ objects[id].x <= 1000
          /\ 0 <= objects[id].y /\ objects[id].y <= 1000
    /\ \A i \in 1 .. Len(published) :
          \A m \in Toks(published[i]) :
              /\ 0 <= m.args[4] /\ m.args[4] <= 1000
              /\ 0 <= m.args[5] /\ m.args[5] <= 1000

\* A frame was produced with an object on the border of the range, at
\* (0.0, 1.0), and the object was then moved by update_object.
C12_Witness ==
    /\ published # <<>>
    /\ \E m \in Toks(published[Len(published)]) : m.args[4] = 0 /\ m.args[5] = 1000
    /\ \E id \in DOMAIN objects : objects[id].x = 600 /\ objects[id].y = 500

\* --------------------------------------------------------------- C13
\* C13: every successful add_object returns a session id that no live
\* object holds at that moment, also after the session-id counter has
\* wrapped; no existing object is replaced or lost by an add, and the
\* number of live objects grows by exactly one.
C13_FreshSessionIds ==
    [][\A c \in CompIds, pt \in Points :
          (result'.op = "add_object" /\ result'.ok /\ add_object(c, pt[1], pt[2])) =>
              /\ result'.val \notin DOMAIN objects
              /\ Cardinality(DOMAIN objects') = Cardinality(DOMAIN objects) + 1
              /\ \A id \in DOMAIN objects :
                    id \in DOMAIN objects' /\ objects'[id] = objects[id]]_vars

\* After the wrap add_object returned session id 0 while the first object
\* held it: the store still has one object, now the new one of component 2.
C13_Witness ==
    /\ result = [op |-> "add_object", ok |-> TRUE, val |-> U32(0)]
    /\ DOMAIN objects = {U32(0)}
    /\ objects[U32(0)].component_id = 2
    /\ next_session_id = U32(1)

\* --------------------------------------------------------------- C14
\* Session ids that were allocated and are no longer live.
RemovedIds == {U32(k) : k \in 0 .. adds - 1} \ DOMAIN objects

\* The ALIVE message of a bundle.
Alv(data) == Messages(data)[Len(data.elements)]

\* C14: a successful remove_object(id) lowers the reported object_count by
\* one and takes id out of the store; no frame produced afterwards has id
\* in a TOK message or in the ALIVE message; a frame produced from an
\* empty store has an ALIVE message without arguments.
C14_RemovedObjectsGone ==
    [][/\ \A id \in IdInputs :
             (result'.op = "remove_object" /\ result'.ok /\ remove_object(id)) =>
                 /\ get_server_status'.object_count =
                        get_server_status.object_count - 1
                 /\ id \notin DOMAIN objects'
       /\ published' # published =>
             LET data == published'[Len(published')]
             IN  /\ \A id \in RemovedIds :
                       /\ \A m \in Toks(data) : m.args[1] # AsI32(id)
                       /\ \A i \in 1 .. Len(Alv(data).args) :
                             Alv(data).args[i] # AsI32(id)
                 /\ objects = EmptyMap => Alv(data).args = <<>>]_vars

\* One object was added, seen in the first frame, removed, and the second
\* frame has neither a TOK message nor an id in ALIVE.
C14_Witness ==
    /\ Len(published) = 2
    /\ adds = 1
    /\ objects = EmptyMap
    /\ get_server_status.object_count = 0
    /\ \E m \in Toks(published[1]) : m.args[1] = 0
    /\ Alv(published[1]).args = <<0>>
    /\ Toks(published[2]) = {}
    /\ Alv(published[2]).args = <<>>

\* --------------------------------------------------------------- C15
\* The positions in a bundle of the TOK messages that carry session id `id`.
TokIndexes(data, id) ==
    {i \in 1 .. Len(data.elements) :
        /\ Messages(data)[i].addr = "/tuio2/tok"
        /\ Messages(data)[i].args[1] = AsI32(id)}

\* C15: a successful add_object(c, x, y) stores an object of component c
\* at (x, y) under the returned session id, and for every object not
\* updated since it was added the frame of the next tick has exactly one
\* TOK message with its session id, whose arguments are the id,
\* (c << 16) | 0, c, x, y, angle 0 and three zero velocities, and the
\* ALIVE message of that frame contains the id.
C15_NewObjectInNextFrame ==
    [][/\ \A c \in CompIds, pt \in Points :
             (result'.op = "add_object" /\ result'.ok /\ add_object(c, pt[1], pt[2])) =>
                 /\ result'.val \in DOMAIN objects'
                 /\ objects'[result'.val].session_id = result'.val
                 /\ objects'[result'.val].component_id = c
                 /\ objects'[result'.val].x = pt[1]
                 /\ objects'[result'.val].y = pt[2]
       /\ published' # published =>
             LET data == published'[Len(published')]
             IN  \A id \in DOMAIN objects :
                    /\ Cardinality(TokIndexes(data, id)) = 1
                    /\ \A i \in TokIndexes(data, id) :
                          Messages(data)[i].args =
                              <<AsI32(id), Pack16(objects[id].component_id, 0),
                                objects[id].component_id, objects[id].x,
                                objects[id].y, 0, Zero, Zero, Zero>>
                    /\ \E i \in 1 .. Len(Alv(data).args) :
                          Alv(data).args[i] = AsI32(id)]_vars

\* add_object(2, 0.0, 1.0) returned session id 1 and the frame of the next
\* tick carries its TOK message and its id in ALIVE.
C15_Witness ==
    /\ published # <<>>
    /\ U32(1) \in DOMAIN objects
    /\ LET data == published[Len(published)]
       IN  /\ \E i \in TokIndexes(data, U32(1)) :
                 Messages(data)[i].args =
                     <<1, Pack16(2, 0), 2, 0, 1000, 0, Zero, Zero, Zero>>
           /\ \E i \in 1 .. Len(Alv(data).args) : Alv(data).args[i] = 1

\* --------------------------------------------------------------- C16
\* The FRM message of a bundle.
Frm(data) == Messages(data)[1]

\* C16: the dimension argument of every FRM message is
\* (width << 16) | height, as a 32-bit value, of the one canvas size that
\* is configured when the tick reads the configuration; the configured
\* width and height always come from the same setting.
C16_DimensionOfOneSetting ==
    [][/\ published' # published =>
             Frm(published'[Len(published')]).args[3] =
                 AsI32([hi |-> config.width, lo |-> config.height])
       /\ <<config.width, config.height>>' \in
             {<<DefaultConfig.width, DefaultConfig.height>>}
                 \cup {d \in DimInputs : d[1] # 0 /\ d[2] # 0}]_vars

\* A frame produced after set_canvas_dimensions(40000, 480): its dimension
\* is negative as a signed 32-bit value and has nothing of the default
\* 1920 x 1080.
C16_Witness ==
    /\ published # <<>>
    /\ Frm(published[Len(published)]).args[3] = (40000 - 65536) * 65536 + 480
    /\ config.width = 40000
    /\ config.height = 480

\* --------------------------------------------------------------- C17
\* floor(ms * 2^32 / 1000) for 0 <= ms < 1000, as a 32-bit value in 16-bit
\* halves: ms * 2^32 = (ms * 2^16) * 2^16.
FractionOf2Pow32(ms) ==
    LET top == ms * (2^16)
    IN  [hi |-> top \div 1000, lo |-> ((top % 1000) * (2^16)) \div 1000]

\* The 32-bit value before v > 0.
U32Pred(v) ==
    IF v.lo > 0 THEN [hi |-> v.hi, lo |-> v.lo - 1]
                ELSE [hi |-> v.hi - 1, lo |-> 2^16 - 1]

\* C17: the timetag of the FRM message of a frame produced at timestamp
\* ts >= 0 has seconds = ts / 1000 and
\* fractional = floor((ts mod 1000) * 2^32 / 1000).
C17_TimetagFractionOf2Pow32 ==
    [][published' # published =>
          Frm(published'[Len(published')]).args[2] =
              [seconds |-> U32(now \div 1000),
               fractional |-> FractionOf2Pow32(now % 1000)]]_vars

\* What the program does: the seconds are ts / 1000, and the fraction is
\* floor((ts mod 1000) * (2^32 - 1) / 1000), which is the value above or,
\* for some ts, one less.
C17_TimetagFractionWithinOne ==
    [][published' # published =>
          LET tag == Frm(published'[Len(published')]).args[2]
              f   == FractionOf2Pow32(now % 1000)
          IN  /\ tag.seconds = U32(now \div 1000)
              /\ \/ tag.fractional = f
                 \/ f # U32(0) /\ tag.fractional = U32Pred(f)]_vars

\* A frame produced at 500 ms past a second: its fraction is 2^31 - 1, not
\* 2^31.
C17_Witness ==
    /\ published # <<>>
    /\ Frm(published[Len(published)]).args[2] =
           [seconds |-> U32(0), fractional |-> [hi |-> 2^15 - 1, lo |-> 2^16 - 1]]
    /\ FractionOf2Pow32(500) = [hi |-> 2^15, lo |-> 0]

\* --------------------------------------------------------------- C18
\* The fields the estimator owns.
Estimate(o) ==
    <<o.x_vel, o.y_vel, o.angle_vel, o.last_x, o.last_y, o.last_angle, o.last_update>>

\* C18: when a tick runs the estimator at wall-clock time t, every object
\* with t - last_update <= 1 ms, zero and negative differences included,
\* keeps its x_vel, y_vel, angle_vel, last_x, last_y, last_angle and
\* last_update.
C18_ShortIntervalKeepsEstimate ==
    [][\A s \in Skews :
          (published' # published /\ ProduceAt(MaxTicks, now + s)) =>
              \A id \in DOMAIN objects :
                 (now + s) - objects[id].last_update <= 1 =>
                     /\ id \in DOMAIN objects'
                     /\ Estimate(objects'[id]) = Estimate(objects[id])]_vars

\* The second tick ran 1 ms after the mover was moved again: the mover
\* still has the velocities of the first tick, 60 and -50 units/s, and its
\* shadow position is not its position.
C18_Witness ==
    /\ Len(published) = 2
    /\ events.last.timestamp - objects[Mover].last_update = 1
    /\ objects[Mover].x_vel = [num |-> 60, den |-> 1]
    /\ objects[Mover].y_vel = [num |-> -50, den |-> 1]
    /\ objects[Mover].x = 500
    /\ objects[Mover].last_x = 600

\* --------------------------------------------------------------- C19
\* v is the quotient of the difference d (thousandths) by dt ms, that is
\* d / (dt / 1000) units per second.
IsRate(v, d, dt) == v.den > 0 /\ v.num * dt = d * v.den

\* C19: when a tick runs the estimator at wall-clock time t, every object
\* with dt = t - last_update > 1 ms gets x_vel = (x - last_x) / (dt / 1000),
\* y_vel = (y - last_y) / (dt / 1000) and
\* angle_vel = (angle - last_angle) / (dt / 1000) with the raw angle
\* difference, then last_x = x, last_y = y, last_angle = angle and
\* last_update = t; the result for an object depends on that object alone,
\* and an object that has not moved gets the velocities 0.
C19_EstimateFromDifferences ==
    [][\A s \in Skews :
          (published' # published /\ ProduceAt(MaxTicks, now + s)) =>
              \A id \in DOMAIN objects :
                 LET o  == objects[id]
                     dt == (now + s) - o.last_update
                 IN  dt > 1 =>
                        /\ id \in DOMAIN objects'
                        /\ IsRate(objects'[id].x_vel, o.x - o.last_x, dt)
                        /\ IsRate(objects'[id].y_vel, o.y - o.last_y, dt)
                        /\ IsRate(objects'[id].angle_vel, o.angle - o.last_angle, dt)
                        /\ objects'[id] =
                              [o EXCEPT !.x_vel = objects'[id].x_vel,
                                        !.y_vel = objects'[id].y_vel,
                                        !.angle_vel = objects'[id].angle_vel,
                                        !.last_x = o.x, !.last_y = o.y,
                                        !.last_angle = o.angle,
                                        !.last_update = now + s]
                        /\ (o.x = o.last_x /\ o.y = o.last_y /\ o.angle = o.last_angle)
                              => /\ objects'[id].x_vel = Zero
                                 /\ objects'[id].y_vel = Zero
                                 /\ objects'[id].angle_vel = Zero]_vars

\* The second tick ran 16 ms after the mover was moved from (0.6, 0.5) at
\* 6.2 rad to (0.5, 0.5) at 0.1 rad: -6.25 units/s in x, 0 in y and
\* -381.25 rad/s, the raw difference over the time, while the other object
\* has not moved and has the velocities 0.
C19_Witness ==
    /\ Len(published) = 2
    /\ objects[Mover].x_vel = [num |-> -25, den |-> 4]
    /\ objects[Mover].y_vel = Zero
    /\ objects[Mover].angle_vel = [num |-> -1525, den |-> 4]
    /\ objects[Mover].last_x = 500
    /\ objects[Mover].last_angle = 100
    /\ objects[Mover].last_update = events.last.timestamp
    /\ objects[U32(1)].x_vel = Zero
    /\ objects[U32(1)].angle_vel = Zero
    /\ objects[U32(1)].last_update = events.last.timestamp

\* --------------------------------------------------------------- C20
\* The fields of an object that update_object does not own.
Kept(o) ==
    <<o.session_id, o.type_id, o.user_id, o.component_id, o.x_vel, o.y_vel,
      o.angle_vel, o.last_x, o.last_y, o.last_angle>>

Velocities(o) == <<o.x_vel, o.y_vel, o.angle_vel>>

\* C20: a successful update_object(id, x, y, angle) sets x, y, angle and
\* last_update of object id and changes nothing else: not its velocities,
\* shadow fields, session id or tags, no other object, not the
\* configuration and not the counters; and no step other than a tick
\* changes the velocities of an object, a new object having the
\* velocities 0.
C20_UpdateTouchesPositionOnly ==
    [][/\ \A m \in Moves :
             (result'.op = "update_object" /\ result'.ok
                 /\ update_object(Mover, m[1], m[2], m[3])) =>
                 /\ DOMAIN objects' = DOMAIN objects
                 /\ \A id \in DOMAIN objects \ {Mover} : objects'[id] = objects[id]
                 /\ Kept(objects'[Mover]) = Kept(objects[Mover])
                 /\ objects'[Mover].x = m[1]
                 /\ objects'[Mover].y = m[2]
                 /\ objects'[Mover].angle = m[3]
                 /\ objects'[Mover].last_update = now
                 /\ UNCHANGED <<config, frame_counter, next_session_id,
                                server_running, connected_clients, published>>
       /\ published' = published =>
             \A id \in DOMAIN objects' :
                Velocities(objects'[id]) =
                    IF id \in DOMAIN objects THEN Velocities(objects[id])
                                            ELSE <<Zero, Zero, Zero>>]_vars

\* update_object moved the mover 16 ms after the tick that estimated its
\* velocities: they are still 60 units/s, -50 units/s and 620 rad/s, and
\* the shadow position is the one of the tick.
C20_Witness ==
    /\ result = [op |-> "update_object", ok |-> TRUE, val |-> 0]
    /\ Velocities(objects[Mover]) =
           <<[num |-> 60, den |-> 1], [num |-> -50, den |-> 1], [num |-> 620, den |-> 1]>>
    /\ objects[Mover].x = 500
    /\ objects[Mover].last_x = 600
    /\ objects[Mover].angle = 100
    /\ objects[Mover].last_angle = 6200
    /\ objects[Mover].last_update = events.last.timestamp + 16

\* --------------------------------------------------------------- C24
\* C24: once stop_server has returned, every connection that was attached
\* to the channel has its subscription ended and its task terminates.
C24_StopEndsEveryPeer ==
    \A p \in Peers : (~server_running /\ Subscribed(p)) ~> ~Subscribed(p)

\* A client that connected before stop_server still holds its receiver
\* after a later start_server and was sent the frame produced after it:
\* the two frames have the same time, so the second is the first frame of
\* a producer started anew, and the client was sent both.
C24_Witness ==
    /\ server_running
    /\ peer[1].st = "loop"
    /\ Len(published) = 2
    /\ received[1] = published
    /\ published[1].elements[1].msg.args[2] = published[2].elements[1].msg.args[2]

\* --------------------------------------------------------------- C25
\* C25: a connection whose client has sent a Close frame, or whose inbound
\* side has failed, is terminated and the counter decremented also while
\* the producer is stopped and no frame is published: the connection's
\* task ends.
C25_ClosedPeerTerminates ==
    \A p \in Peers :
        (Subscribed(p) /\ peer[p].sock = "closed" /\ ~server_running)
            ~> (~Subscribed(p) \/ server_running)

\* The server is stopped, the client has closed and the receive task has
\* ended, and the connection's task is still in its send loop with its
\* receiver subscribed and nothing to receive.
C25_Witness ==
    /\ ~server_running
    /\ producer = "none"
    /\ peer[1].st = "loop"
    /\ peer[1].sock = "closed"
    /\ peer[1].rx_task = "done"
    /\ peer[1].next = Len(chan)
    /\ ~ENABLED PeerRecv(1)
    /\ ~ENABLED PeerJoin(1)

\* --------------------------------------------------------------- C26
\* C26: the connected-clients counter reported by get_server_status is the
\* number of connections attached to the channel, that is of connection
\* tasks that hold a receiver.
C26_CounterCountsPeers ==
    get_server_status.connected_clients = receiver_count

\* After stop_server the counter is 0 while two connections hold their
\* receivers.
C26_Witness ==
    /\ result = [op |-> "stop_server", ok |-> TRUE, val |-> 0]
    /\ get_server_status.connected_clients = 0
    /\ receiver_count = 2
    /\ \A p \in Peers : peer[p].st = "loop"

\* --------------------------------------------------------------- C27
\* C27: after listener.accept() has returned an error the accept loop
\* keeps running.
C27_AcceptErrorKeepsAccepting ==
    [][AcceptError => acceptor' = "alive"]_vars

\* The server is reported running with the handle of its accept loop
\* stored, and the accept loop has ended: no connection is accepted.
C27_Witness ==
    /\ get_server_status.running
    /\ server_task = "Some"
    /\ acceptor = "exited"
    /\ \A p \in Peers : ~ENABLED Accept(p)

\* --------------------------------------------------------------- C30

\* C30: in every reachable state, also while add_object calls execute
\* concurrently, no two live objects have the same component_id.
C30_UniqueComponentIds ==
    \A a, b \in DOMAIN objects :
        a # b => objects[a].component_id # objects[b].component_id

\* Two add_object calls for the same component id have both passed the
\* search of the store and wait for the lock of the insert.
C30_Witness ==
    /\ \A k \in Callers : At(k, "add_object", "insert")
    /\ calls[1].arg[1] = calls[2].arg[1]
    /\ calls[1].loc[1] # calls[2].loc[1]

\* --------------------------------------------------------------- C28

\* The frame published last.
LastFrame == published[Len(published)]

\* C28: there is exactly one osc_message event per produced frame; under
\* every interleaving of the producer with add_object and remove_object
\* its frame_id is the frame id of the FRM message and its object_count the
\* number of TOK messages, which is the number of arguments of the ALIVE
\* message, of that same frame.
C28_EventDescribesItsFrame ==
    /\ events.count = Len(published)
    /\ published # <<>> =>
          /\ AsI32(events.last.frame_id) = FrameId(LastFrame)
          /\ events.last.object_count = Cardinality(Toks(LastFrame))
          /\ Cardinality(Toks(LastFrame)) = Len(Alv(LastFrame).args)

\* The producer has built a frame and read the store's size for its event
\* after an add_object completed in between.
C28_Witness ==
    /\ TaskAt(2, "event_emit")
    /\ result = Ok("add_object", U32(0))
    /\ tasks[2].loc.object_count = 1
    /\ Len(Alv(tasks[2].loc.data).args) = 0

\* --------------------------------------------------------------- C21

\* The latest command that returned is a start_server that returned Ok, and
\* no stop_server has been called since.
StartedAndNotStopped ==
    /\ result.op = "start_server"
    /\ result.ok
    /\ \A k \in Callers : calls[k].op # "stop_server"

\* C21: after start_server returned Ok and as long as no stop_server is
\* called, the producer task is running: it has not exited while the server
\* is reported as running (so that, scheduled fairly, it publishes a frame
\* and keeps publishing).
C21_ProducerRunsWhileStarted ==
    (StartedAndNotStopped /\ get_server_status.running) =>
        \E i \in Producers : ~Ended(i)

\* start_server returned Ok, and the producer it spawned has published a
\* frame and sleeps.
C21_Witness ==
    /\ StartedAndNotStopped
    /\ get_server_status.running
    /\ Len(tasks) = 2
    /\ TaskAt(2, "sleep")
    /\ ~tasks[2].abort
    /\ Len(published) = 1

\* --------------------------------------------------------------- C22

\* A task that runs and was not aborted.
Alive(i) == ~Ended(i) /\ ~tasks[i].abort

AliveProducers == {i \in Producers : Alive(i)}

AliveAcceptors == {i \in Acceptors : Alive(i)}

\* C22: under every interleaving of concurrent start_server and
\* stop_server calls at most one producer task and at most one acceptor
\* task is alive; once all calls have returned, running is true exactly
\* when a producer and an acceptor both exist and false exactly when
\* neither exists.
C22_OneProducerOneAcceptor ==
    /\ Cardinality(AliveProducers) <= 1
    /\ Cardinality(AliveAcceptors) <= 1
    /\ (\A k \in Callers : Idle(k)) =>
          /\ get_server_status.running <=>
                (AliveProducers # {} /\ AliveAcceptors # {})
          /\ ~get_server_status.running <=>
                (AliveProducers = {} /\ AliveAcceptors = {})

\* Two start_server calls ran concurrently and both returned: two
\* producers that nobody aborted are running, one of them without a handle.
C22_Witness ==
    /\ \A k \in Callers : Idle(k)
    /\ get_server_status.running
    /\ Cardinality(AliveProducers) = 2
    /\ \E i \in AliveProducers : ~tasks[i].handle
    /\ \A i \in AliveProducers : tasks[i].pc = "sleep"

\* --------------------------------------------------------------- C23

\* The latest command that returned is a stop_server, and no start_server
\* is in flight (one issued later would be in flight or have returned).
StoppedAndNotStarted ==
    /\ result.op = "stop_server"
    /\ \A k \in Callers : calls[k].op # "start_server"

\* C23: after stop_server returned, with no start_server in flight or
\* issued later, no producer begins another frame (a frame whose
\* production had begun may still be published, and then the frame counter
\* stays); and a producer is cancelled only before its first poll or in
\* its sleep between two frames, never inside a frame.
C23_NoFrameBeginsAfterStop ==
    [][/\ StoppedAndNotStarted =>
             \A i \in DOMAIN tasks :
                 tasks'[i].pc = "counter" => tasks[i].pc = "counter"
       /\ \A i \in DOMAIN tasks :
             (tasks'[i].pc = "cancelled" /\ tasks[i].pc # "cancelled") =>
                 tasks[i].pc \in {"start", "sleep", "accept"}]_vars

\* stop_server returned while the producer it aborted was inside a frame,
\* which the producer is about to publish.
C23_Witness ==
    /\ StoppedAndNotStarted
    /\ \A k \in Callers : Idle(k)
    /\ ~get_server_status.running
    /\ Len(tasks) = 2
    /\ TaskAt(2, "event_emit")
    /\ tasks[2].abort
    /\ published = <<>>

\* --------------------------------------------------------------- C29

\* C29: no command and no task holds more than one of the locks (objects,
\* config, running flag, frame counter, connected-clients counter, task
\* handles) at a time.
C29_OneLockAtATime ==
    /\ \A k \in Callers : Cardinality(calls[k].held) <= 1
    /\ \A i \in DOMAIN tasks : Cardinality(tasks[i].held) <= 1

\* A get_server_status call has read the flag, the configuration and the
\* counter of clients while an add_object call is between its two lock
\* sections.
C29_Witness ==
    /\ At(1, "get_server_status", "counter")
    /\ "config" \in calls[1].held
    /\ At(2, "add_object", "insert")

\* --------------------------------------------------------------- C31

\* An object whose position or angle differs from its shadow.
Moved(o) == o.x # o.last_x \/ o.y # o.last_y \/ o.angle # o.last_angle

\* C31: for an object moved by update_object between the first tick, which
\* committed its shadow at the time the first frame carries, and the second
\* tick, the velocities of the second frame are the differences to the
\* shadow divided by the time since that commit, the interval between the
\* two frames, whenever in the interval update_object was called.
C31_VelocityOverFrameInterval ==
    [][(Len(published) = 1 /\ published' # published /\ Produce(MaxTicks)) =>
          \A id \in DOMAIN objects :
             LET o        == objects[id]
                 interval == now - events.last.timestamp
             IN  Moved(o) =>
                    /\ IsRate(objects'[id].x_vel, o.x - o.last_x, interval)
                    /\ IsRate(objects'[id].y_vel, o.y - o.last_y, interval)
                    /\ IsRate(objects'[id].angle_vel, o.angle - o.last_angle,
                              interval)]_vars

\* The mover was moved from (0.6, 0.5) to (0.5, 0.5) 8 ms after the first
\* frame and the second frame came 16 ms after the first: the second tick
\* has run the estimator on it.
C31_Witness ==
    /\ Len(published) = 2
    /\ objects[Mover].x = 500
    /\ objects[Mover].last_x = 500
    /\ objects[Mover].last_update = StartTime + 16
    /\ objects[Mover].x_vel = [num |-> -25, den |-> 2]

\* --------------------------------------------------------------- C32

\* The threads that take locks: the commands in flight and the tasks.
Threads == {<<"call", k>> : k \in Callers} \cup {<<"task", i>> : i \in TaskIds}

Holds(t, lock) ==
    IF t[1] = "call" THEN CallHolds(t[2], lock) ELSE TaskHolds(t[2], lock)

\* The lock thread t waits for, "none" when it does not wait: it has
\* dropped the guards it does not keep and the lock of its next step is
\* held.
WaitsFor(t) ==
    IF t[1] = "call"
    THEN IF /\ ~Idle(t[2])
            /\ calls[t[2]].held \subseteq CallKeeps(t[2])
            /\ Locked(CallWants(t[2]))
         THEN CallWants(t[2])
         ELSE "none"
    ELSE IF /\ t[2] \in Producers
            /\ tasks[t[2]].held \subseteq TaskKeeps(t[2])
            /\ Locked(TaskWants(t[2]))
         THEN TaskWants(t[2])
         ELSE "none"

\* No set of threads waits in a circle: in every set of threads one does
\* not wait for a lock that a thread of the set holds.
NoCyclicWait ==
    \A S \in SUBSET Threads \ {{}} :
        \E t \in S : \A u \in S : ~Holds(u, WaitsFor(t))

\* The producer is inside an iteration.
InFrame(i) ==
    tasks[i].pc \in {"counter", "config", "objects", "event_counter", "event_objects",
                     "event_emit", "fps"}

\* C32: the locks never deadlock: under every interleaving of
\* get_server_status and stop_server, which nest their locks, and the
\* producer no set of threads waits in a circle for locks, so that with
\* fair locks every command in flight returns and every iteration the
\* producer began reaches its sleep: every lock they ask for is granted.
\* (A command that is again and again idle is one whose every call
\* returns; a task that is again and again outside an iteration is one
\* whose every iteration ends.)
C32_LocksAreGranted ==
    /\ []NoCyclicWait
    /\ \A k \in Callers : []<>Idle(k)
    /\ \A i \in TaskIds : []<>~InFrame(i)

\* get_server_status holds the configuration and waits for the counter of
\* clients, stop_server holds the handle of the accept loop and waits for
\* the same counter, which the producer holds; the producer waits for
\* nothing.
C32_Witness ==
    /\ At(1, "get_server_status", "clients")
    /\ WaitsFor(<<"call", 1>>) = "connected_clients"
    /\ At(2, "stop_server", "ws_reset")
    /\ WaitsFor(<<"call", 2>>) = "connected_clients"
    /\ TaskHolds(2, "connected_clients")
    /\ WaitsFor(<<"task", 2>>) = "none"

====
